---- MODULE Spec2Model ----
(***************************************************************************)
(* Workflow execution engine: the graph walker (executeWorkflow,           *)
(* validateGraph, nextNode), the node family behind nodes.New, and the     *)
(* cancellation contexts the walker derives.                               *)
(***************************************************************************)
EXTENDS Integers, Sequences, FiniteSets, TLC

(***************************************************************************)
(* Program constants and model bounds                                      *)
(***************************************************************************)

\* const maxExecutionSteps = 100
maxExecutionSteps == 100

\* threshold = 25 // default
DefaultThreshold == 25

\* Longest edge list drawn for the small workflows.
MaxEdges == 2

\* Largest number of hot readings the weather capability returns before it cools.
MaxHot == 2

\* Number of different workflow values UpsertWorkflow is called with.
MaxSaves == 2

\* the snapshots published before storage is left alone
MaxPublishes == 2

(***************************************************************************)
(* Dynamically typed values of the variable bag (map[string]any).          *)
(* The tag t is the Go dynamic type: "str" string, "num" float64, "bool",  *)
(* "op" nodes.Operator (a named string type), "map" map[string]any.        *)
(***************************************************************************)

Str(s) == [t |-> "str", v |-> <<[k |-> "lit", s |-> <<s>>]>>]
Num(n) == [t |-> "num", v |-> <<n>>]
Bool(b) == [t |-> "bool", v |-> <<b>>]
Op(s) == [t |-> "op", v |-> <<s>>]
Map(m) == [t |-> "map", v |-> <<m>>]

\* A string built by fmt.Sprintf / strings.ReplaceAll: the tuple of its parts,
\* each a literal Lit(s) or a value printed with %v, Val(x).
Text(parts) == [t |-> "str", v |-> parts]
Lit(s) == [k |-> "lit", s |-> <<s>>]
Val(x) == [k |-> "val", s |-> <<x>>]

\* the Go value behind a tagged value that is not a built string
Raw(x) == IF x.t = "str" THEN x.v[1].s[1] ELSE x.v[1]

\* v.(string): the type assertion succeeds only for the dynamic type string.
IsString(bag, k) == k \in DOMAIN bag /\ bag[k].t = "str"

\* map merge "for k, v := range src { dst[k] = v }": last write wins
\* a merge in which a key already present keeps its value
MergeKeepingOld(dst, src) ==
  [k \in (DOMAIN dst) \cup (DOMAIN src) |-> IF k \in DOMAIN dst THEN dst[k] ELSE src[k]]

MergeInto(dst, src) ==
  [k \in (DOMAIN dst) \cup (DOMAIN src) |-> IF k \in DOMAIN src THEN src[k] ELSE dst[k]]

EmptyMap == [k \in {} |-> Str("")]

(***************************************************************************)
(* Errors are the tuple of the parts fmt.Errorf joins; <<>> is a nil error *)
(***************************************************************************)

NoErr == <<>>

(***************************************************************************)
(* Node metadata: json.RawMessage documents, named here by a key, and what *)
(* json.Unmarshal reads from each into the node structs.                   *)
(***************************************************************************)

ZeroMeta ==
  [inputFields |-> <<>>, outputVariables |-> <<>>, conditionVariable |-> "",
   apiEndpoint |-> "", inputVariables |-> <<>>, options |-> <<>>,
   subject |-> <<>>, body |-> <<>>]

Ph(key) == [k |-> "ph", s |-> <<key>>]

CityOption(city, lat, lon) == [city |-> city, lat |-> lat, lon |-> lon]

\* The documents of the node library seeds, and malformed variants of them.
MetaDocs ==
  [ empty |-> ZeroMeta,
    form_ok |-> [ZeroMeta EXCEPT !.inputFields = <<"name", "email", "city">>,
                                 !.outputVariables = <<"name", "email", "city">>],
    form_city |-> [ZeroMeta EXCEPT !.inputFields = <<"city">>,
                                   !.outputVariables = <<"city">>],
    form_noinput |-> [ZeroMeta EXCEPT !.outputVariables = <<"city">>],
    form_blank |-> [ZeroMeta EXCEPT !.inputFields = <<" ">>,
                                    !.outputVariables = <<" ">>],
    form_unlisted |-> [ZeroMeta EXCEPT !.inputFields = <<"city">>,
                                       !.outputVariables = <<"name">>],
    weather_ok |-> [ZeroMeta EXCEPT !.apiEndpoint = "https://api.open-meteo.com",
                                    !.inputVariables = <<"city">>,
                                    !.outputVariables = <<"temperature">>,
                                    !.options = <<CityOption("Sydney", -34, 151),
                                                  CityOption("Melbourne", -38, 145)>>],
    weather_edge |-> [ZeroMeta EXCEPT !.apiEndpoint = "https://api.open-meteo.com",
                                      !.inputVariables = <<"city">>,
                                      !.options = <<CityOption("Sydney", -90, 180)>>],
    weather_badlat |-> [ZeroMeta EXCEPT !.apiEndpoint = "https://api.open-meteo.com",
                                        !.inputVariables = <<"city">>,
                                        !.options = <<CityOption("Sydney", 91, 151)>>],
    cond_ok |-> [ZeroMeta EXCEPT !.conditionVariable = "temperature",
                                 !.outputVariables = <<"conditionMet">>],
    cond_discharge |-> [ZeroMeta EXCEPT !.conditionVariable = "discharge"],
    email_ok |-> [ZeroMeta EXCEPT !.inputVariables = <<"name", "city", "temperature">>,
                                  !.outputVariables = <<"emailSent">>,
                                  !.subject = <<Lit("Weather Alert")>>,
                                  !.body = <<Lit("Weather alert for "), Ph("city"),
                                             Lit("! Temperature is "), Ph("temperature")>>],
    email_named |-> [ZeroMeta EXCEPT !.inputVariables = <<"email", "city", "name">>,
                                     !.outputVariables = <<"emailSent">>,
                                     !.subject = <<Lit("Weather in "), Ph("city")>>,
                                     !.body = <<Lit("Hi "), Ph("name"),
                                                Lit(", the weather in "), Ph("city"),
                                                Lit(" is nice.")>>],
    email_undeclared |-> [ZeroMeta EXCEPT !.inputVariables = <<"name">>,
                                          !.subject = <<Lit("Weather Alert")>>,
                                          !.body = <<Ph("city")>>],
    sms_ok |-> [ZeroMeta EXCEPT !.inputVariables = <<"phone", "message">>,
                                !.outputVariables = <<"smsSent">>],
    sms_nophone |-> [ZeroMeta EXCEPT !.inputVariables = <<"message">>] ]

\* Documents json.Unmarshal rejects (not JSON at all, e.g. empty bytes).
MalformedDocs == {"not_json"}

\* json.Unmarshal(base.Metadata, n): ok and the fields read, or a failure
Unmarshal(raw) ==
  IF raw \in DOMAIN MetaDocs THEN [ok |-> TRUE, m |-> MetaDocs[raw]]
  ELSE [ok |-> FALSE, m |-> ZeroMeta]

(***************************************************************************)
(* Small helpers over sequences                                            *)
(***************************************************************************)

Range(seq) == {seq[i] : i \in DOMAIN seq}

\* index of the first element satisfying P, 0 when there is none
FirstIndex(seq, P(_)) ==
  IF \E i \in DOMAIN seq : P(seq[i])
  THEN CHOOSE i \in DOMAIN seq : P(seq[i]) /\ \A j \in 1..(i - 1) : ~P(seq[j])
  ELSE 0

\* strings.TrimSpace(s) == ""
Blank(s) == s \in {"", " "}

\* strings.EqualFold(a, b) over the city names in use
Fold(s) ==
  CASE s \in {"Sydney", "sydney", "SYDNEY"} -> "sydney"
    [] s \in {"Melbourne", "melbourne"} -> "melbourne"
    [] OTHER -> s

EqualFold(a, b) == Fold(a) = Fold(b)

(***************************************************************************)
(* nodes.New: the factory keyed on the type tag.  deps[c] is TRUE for a    *)
(* non-nil client.  A node is its base fields, the parsed metadata and the *)
(* client it was given.                                                    *)
(***************************************************************************)

MkNode(sn, m, client) ==
  [id |-> sn.id, type |-> sn.type, metadata |-> sn.metadata, m |-> m, client |-> client]

ParsedNode(sn, kind, client) ==
  LET u == Unmarshal(sn.metadata) IN
  IF u.ok THEN [err |-> NoErr, node |-> MkNode(sn, u.m, client)]
  ELSE [err |-> <<"invalid ", kind, " metadata: ", "unexpected end of JSON input">>,
        node |-> MkNode(sn, ZeroMeta, client)]

New(sn, deps) ==
  CASE sn.type \in {"start", "end"} -> [err |-> NoErr, node |-> MkNode(sn, ZeroMeta, TRUE)]
    [] sn.type = "form" -> ParsedNode(sn, "form", TRUE)
    [] sn.type = "integration" -> ParsedNode(sn, "integration", deps.Weather)
    [] sn.type = "condition" -> ParsedNode(sn, "condition", TRUE)
    [] sn.type = "email" -> ParsedNode(sn, "email", deps.Email)
    [] sn.type = "sms" -> ParsedNode(sn, "sms", deps.SMS)
    [] sn.type = "flood" -> ParsedNode(sn, "flood", deps.Flood)
    [] OTHER -> [err |-> <<"unknown node type: ", sn.type>>,
                 node |-> MkNode(sn, ZeroMeta, FALSE)]

(***************************************************************************)
(* Validate, per node type                                                 *)
(***************************************************************************)

SentinelValidate(n) ==
  IF n.type # "start" /\ n.type # "end"
  THEN <<"sentinel node must be type start or end, got ", n.type>>
  ELSE NoErr

FormValidate(n) ==
  LET inF == n.m.inputFields
      outV == n.m.outputVariables
  IN
  CASE Len(inF) = 0 -> <<"form node ", n.id, ": no input fields">>
    [] \E i \in DOMAIN inF : Blank(inF[i]) -> <<"form node ", n.id, ": input field is blank">>
    [] Len(outV) = 0 -> <<"form node ", n.id, ": no output variables">>
    [] \E i \in DOMAIN outV : Blank(outV[i]) -> <<"form node ", n.id, ": output variable is blank">>
    [] \E i \in DOMAIN inF : inF[i] \notin Range(outV) ->
         <<"form node ", n.id, ": input field not listed in output variables">>
    [] OTHER -> NoErr

ConditionValidate(n) == NoErr

OptionError(opt) ==
  CASE Blank(opt.city) -> "has blank city"
    [] opt.lat < -90 \/ opt.lat > 90 -> "lat out of range [-90, 90]"
    [] opt.lon < -180 \/ opt.lon > 180 -> "lon out of range [-180, 180]"
    [] OTHER -> ""

\* WeatherNode.Validate and FloodNode.Validate: the same checks, named by kind
LookupValidate(n, kind) ==
  LET opts == n.m.options
      bad == FirstIndex(opts, LAMBDA o : OptionError(o) # "")
  IN
  CASE ~n.client -> <<kind, " node ", n.id, ": ", kind, " client is nil">>
    [] n.m.apiEndpoint = "" -> <<kind, " node ", n.id, ": missing apiEndpoint">>
    [] Len(opts) = 0 -> <<kind, " node ", n.id, ": no city options configured">>
    [] bad # 0 -> <<kind, " node ", n.id, ": option ", OptionError(opts[bad])>>
    [] Len(n.m.inputVariables) = 0 -> <<kind, " node ", n.id, ": no input variables">>
    [] OTHER -> NoErr

\* extractPlaceholders(subject + " " + body)
ExtractPlaceholders(tmpl) == {tok.s[1] : tok \in {x \in Range(tmpl) : x.k = "ph"}}

EmailValidate(n) ==
  CASE ~n.client -> <<"email node ", n.id, ": email client is nil">>
    [] n.m.subject = <<>> -> <<"email node ", n.id, ": missing email template subject">>
    [] n.m.body = <<>> -> <<"email node ", n.id, ": missing email template body">>
    [] Len(n.m.inputVariables) = 0 -> <<"email node ", n.id, ": no input variables">>
    [] \E ph \in ExtractPlaceholders(n.m.subject \o n.m.body) :
         ph \notin Range(n.m.inputVariables) ->
         <<"email node ", n.id, ": template references placeholder not in input variables">>
    [] OTHER -> NoErr

SmsValidate(n) ==
  CASE ~n.client -> <<"sms node ", n.id, ": sms client is nil">>
    [] Len(n.m.inputVariables) = 0 -> <<"sms node ", n.id, ": no input variables">>
    [] "phone" \notin Range(n.m.inputVariables) ->
         <<"sms node ", n.id, ": input variables must include phone">>
    [] OTHER -> NoErr

Validate(n) ==
  CASE n.type \in {"start", "end"} -> SentinelValidate(n)
    [] n.type = "form" -> FormValidate(n)
    [] n.type = "condition" -> ConditionValidate(n)
    [] n.type = "integration" -> LookupValidate(n, "weather")
    [] n.type = "flood" -> LookupValidate(n, "flood")
    [] n.type = "email" -> EmailValidate(n)
    [] OTHER -> SmsValidate(n)

(***************************************************************************)
(* Execute, per node type.  A result is {err, status, output, branch};     *)
(* reply is what the call draws from outside the node: what its client     *)
(* call returned, and the orders its ranges over the variables ran in.     *)
(***************************************************************************)

Failure(err) == [err |-> err, status |-> "", output |-> EmptyMap, branch |-> ""]
Success(output, branch) ==
  [err |-> NoErr, status |-> "completed", output |-> output, branch |-> branch]

SentinelExecute(n, bag) == Success(EmptyMap, "")

FormExecute(n, bag) ==
  LET inF == n.m.inputFields
      missing == FirstIndex(inF, LAMBDA f : f \notin DOMAIN bag)
  IN
  IF missing # 0 THEN Failure(<<"missing required form field: ", inF[missing]>>)
  ELSE Success([f \in Range(inF) |-> bag[f]], "")

\* toFloat64(vars[k]): float64, float32, int and json.Number convert
IsNumber(bag, k) == k \in DOMAIN bag /\ bag[k].t = "num"

Operators ==
  {"greater_than", "less_than", "equal_to", "greater_than_or_equal", "less_than_or_equal"}

evaluate(value, op, threshold) ==
  CASE op = "greater_than" -> value > threshold
    [] op = "less_than" -> value < threshold
    [] op = "equal_to" -> value = threshold
    [] op = "greater_than_or_equal" -> value >= threshold
    [] OTHER -> value <= threshold

branchLabel(met) == IF met THEN "met" ELSE "not met"

ConditionExecute(n, bag) ==
  LET varName == IF n.m.conditionVariable = "" THEN "temperature" ELSE n.m.conditionVariable
      raw == IF IsString(bag, "operator") THEN Raw(bag["operator"]) ELSE ""
      operator == IF raw = "" THEN "greater_than" ELSE raw
      threshold == IF IsNumber(bag, "threshold") THEN Raw(bag["threshold"])
                   ELSE DefaultThreshold
  IN
  IF ~IsNumber(bag, varName) THEN Failure(<<"missing or invalid variable: ", varName>>)
  ELSE IF operator \notin Operators THEN Failure(<<"unsupported operator: ", operator>>)
  ELSE LET value == Raw(bag[varName])
           conditionMet == evaluate(value, operator, threshold)
       IN Success([conditionMet |-> Bool(conditionMet),
                   threshold |-> Num(threshold),
                   operator |-> Op(operator),
                   actualValue |-> Num(value),
                   message |-> Text(<<Lit(varName), Val(Num(value)), Lit(operator),
                                      Val(Num(threshold)), Lit(branchLabel(conditionMet))>>)],
                  IF conditionMet THEN "true" ELSE "false")

\* the option matching the city in the bag, 0 when the city is unsupported
MatchOption(n, bag) ==
  FirstIndex(n.m.options, LAMBDA o : EqualFold(o.city, Raw(bag["city"])))

WeatherExecute(n, bag, reply) ==
  CASE ~IsString(bag, "city") -> Failure(<<"missing required input variable: city">>)
    [] MatchOption(n, bag) = 0 -> Failure(<<"unsupported city: ", Raw(bag["city"])>>)
    [] reply.err # NoErr -> Failure(<<"weather lookup failed: ">> \o reply.err)
    [] OTHER -> Success([temperature |-> Num(reply.temp), location |-> bag["city"]], "")

FloodExecute(n, bag, reply) ==
  CASE ~IsString(bag, "city") -> Failure(<<"missing required input variable: city">>)
    [] MatchOption(n, bag) = 0 -> Failure(<<"unsupported city: ", Raw(bag["city"])>>)
    [] reply.err # NoErr -> Failure(<<"flood risk lookup failed: ">> \o reply.err)
    [] OTHER -> Success([floodRisk |-> Str(reply.risk), discharge |-> Num(reply.discharge),
                         location |-> bag["city"]], "")

\* fmt.Sprintf("%v", val): a string prints as itself, placeholders in it included
Sprint(val) == IF val.t = "str" THEN val.v ELSE <<Val(val)>>

RECURSIVE Flatten(_)
Flatten(seqs) == IF seqs = <<>> THEN <<>> ELSE Head(seqs) \o Flatten(Tail(seqs))

\* strings.ReplaceAll(result, "{{" + key + "}}", printed)
ReplaceAll(result, key, printed) ==
  Flatten([i \in DOMAIN result |-> IF result[i].k = "ph" /\ result[i].s[1] = key
                                THEN printed ELSE <<result[i]>>])

\* the placeholders a text holds
Placeholders(parts) == {parts[i].s[1] : i \in {j \in DOMAIN parts : parts[j].k = "ph"}}

\* The keys whose turn in "for key, val := range vars" can change the result: those
\* whose placeholder is in the template or in a string of the map.  The range visits
\* the keys of a Go map in an unspecified order; replacing any other key changes
\* nothing wherever it comes.
RangedKeys(tmpl, variables) ==
  (DOMAIN variables) \cap
    (Placeholders(tmpl) \cup
       UNION {Placeholders(variables[k].v) : k \in {j \in DOMAIN variables : variables[j].t = "str"}})

\* the orders the range can visit those keys in
RangeOrders(tmpl, variables) ==
  LET keys == RangedKeys(tmpl, variables) IN
  {o \in [1..Cardinality(keys) -> keys] : \A i, j \in DOMAIN o : o[i] = o[j] => i = j}

\* resolveTemplate, its range visiting the keys in the given order: one ReplaceAll
\* per key, each on the result of the one before
RECURSIVE resolveTemplate(_, _, _)
resolveTemplate(tmpl, variables, order) ==
  IF order = <<>> THEN tmpl
  ELSE resolveTemplate(ReplaceAll(tmpl, Head(order), Sprint(variables[Head(order)])), variables,
                       Tail(order))

\* to, ok := vars[k].(string); !ok || to == ""
MissingString(bag, k) == ~IsString(bag, k) \/ bag[k] = Str("")

EmailExecute(n, bag, reply) ==
  CASE MissingString(bag, "email") -> Failure(<<"missing or invalid variable: email">>)
    [] reply.err # NoErr -> Failure(<<"failed to send email: ">> \o reply.err)
    [] OTHER ->
         Success([emailDraft |-> Map([to |-> bag["email"],
                                      from |-> Str("weather-alerts@example.com"),
                                      subject |-> Text(resolveTemplate(n.m.subject, bag,
                                                                       reply.subjectOrder)),
                                      body |-> Text(resolveTemplate(n.m.body, bag,
                                                                    reply.bodyOrder))]),
                  deliveryStatus |-> Str(reply.status),
                  emailSent |-> Bool(reply.sent)], "")

SmsExecute(n, bag, reply) ==
  CASE MissingString(bag, "phone") -> Failure(<<"missing or invalid variable: phone">>)
    [] reply.err # NoErr -> Failure(<<"failed to send sms: ">> \o reply.err)
    [] OTHER -> Success([deliveryStatus |-> Str(reply.status), smsSent |-> Bool(reply.sent)], "")

Execute(n, bag, reply) ==
  CASE n.type \in {"start", "end"} -> SentinelExecute(n, bag)
    [] n.type = "form" -> FormExecute(n, bag)
    [] n.type = "condition" -> ConditionExecute(n, bag)
    [] n.type = "integration" -> WeatherExecute(n, bag, reply)
    [] n.type = "flood" -> FloodExecute(n, bag, reply)
    [] n.type = "email" -> EmailExecute(n, bag, reply)
    [] OTHER -> SmsExecute(n, bag, reply)

\* whether Execute reaches the node's client call (its own checks passed first)
CallsClient(n, bag) ==
  CASE n.type \in {"integration", "flood"} -> IsString(bag, "city") /\ MatchOption(n, bag) # 0
    [] n.type = "email" -> ~MissingString(bag, "email")
    [] n.type = "sms" -> ~MissingString(bag, "phone")
    [] OTHER -> FALSE

(***************************************************************************)
(* The walker's graph: storage nodes {id, type, metadata}, storage edges   *)
(* {source, target, sourceHandle}; a *string handle is <<>> for nil and    *)
(* <<h>> for a pointer to h.                                               *)
(***************************************************************************)

StorageNode(id, type, metadata) == [id |-> id, type |-> type, metadata |-> metadata]
StorageEdge(source, target, handle) ==
  [source |-> source, target |-> target, sourceHandle |-> handle]

NilHandle == <<>>
Handle(h) == <<h>>

\* an adjacency list keyed by the target of each edge and leading to its source
BuildAdjacencyReversed(edges) ==
  [tgt \in {edges[i].target : i \in DOMAIN edges} |->
     LET mine == SelectSeq(edges, LAMBDA e : e.target = tgt)
     IN [i \in DOMAIN mine |->
           [TargetID |-> mine[i].source, SourceHandle |-> mine[i].sourceHandle]]]

\* adjacency[e.Source] = append(adjacency[e.Source], edgeTarget{...}), in edge order
BuildAdjacency(edges) ==
  [src \in {edges[i].source : i \in DOMAIN edges} |->
     LET mine == SelectSeq(edges, LAMBDA e : e.source = src)
     IN [i \in DOMAIN mine |->
           [TargetID |-> mine[i].target, SourceHandle |-> mine[i].sourceHandle]]]

\* adjacency[id]: the nil slice for a node with no outgoing edge
EdgesOf(adj, id) == IF id \in DOMAIN adj THEN adj[id] ELSE <<>>

\* the first loop of validateGraph: duplicate ids, and the start node
RECURSIVE ScanNodes(_, _, _, _)
ScanNodes(storageNodes, i, nodeIDs, startID) ==
  IF i > Len(storageNodes) THEN [err |-> NoErr, nodeIDs |-> nodeIDs, startID |-> startID]
  ELSE IF storageNodes[i].id \in nodeIDs
  THEN [err |-> <<"duplicate node ID ", storageNodes[i].id>>, nodeIDs |-> nodeIDs,
        startID |-> ""]
  ELSE ScanNodes(storageNodes, i + 1, nodeIDs \cup {storageNodes[i].id},
                 IF storageNodes[i].type = "start" /\ startID = ""
                 THEN storageNodes[i].id ELSE startID)

\* the second loop without "if e.TargetID == startID"
SourceErrorStartAllowed(sourceID, edges, nodeIDs, startID) ==
  LET bad == FirstIndex(edges, LAMBDA e : e.TargetID \notin nodeIDs)
  IN
  CASE sourceID \notin nodeIDs -> <<"edge references non-existent source node ", sourceID>>
    [] bad = 0 -> NoErr
    [] OTHER -> <<"edge references non-existent target node ", edges[bad].TargetID>>

\* the second loop also rejecting an edge from a node to itself
SourceErrorAcyclic(sourceID, edges, nodeIDs, startID) ==
  LET bad == FirstIndex(edges, LAMBDA e : e.TargetID \notin nodeIDs \/ e.TargetID = startID
                                          \/ e.TargetID = sourceID)
  IN
  CASE sourceID \notin nodeIDs -> <<"edge references non-existent source node ", sourceID>>
    [] bad = 0 -> NoErr
    [] edges[bad].TargetID \notin nodeIDs ->
         <<"edge references non-existent target node ", edges[bad].TargetID>>
    [] edges[bad].TargetID = startID ->
         <<"start node ", startID, " must not have incoming edges">>
    [] OTHER -> <<"workflow contains a cycle">>

\* the second loop leaving the targets of the edges unchecked
SourceErrorTargetsUnchecked(sourceID, edges, nodeIDs, startID) ==
  LET bad == FirstIndex(edges, LAMBDA e : e.TargetID = startID)
  IN
  CASE sourceID \notin nodeIDs -> <<"edge references non-existent source node ", sourceID>>
    [] bad = 0 -> NoErr
    [] OTHER -> <<"start node ", startID, " must not have incoming edges">>

\* the body of the second loop for one source: the first defect among its edges
SourceError(sourceID, edges, nodeIDs, startID) ==
  LET bad == FirstIndex(edges, LAMBDA e : e.TargetID \notin nodeIDs \/ e.TargetID = startID)
  IN
  CASE sourceID \notin nodeIDs -> <<"edge references non-existent source node ", sourceID>>
    [] bad = 0 -> NoErr
    [] edges[bad].TargetID \notin nodeIDs ->
         <<"edge references non-existent target node ", edges[bad].TargetID>>
    [] OTHER -> <<"start node ", startID, " must not have incoming edges">>

\* validateGraph: the set of results it can return.  The second loop ranges over a
\* Go map, whose iteration order is unspecified: with defects under several sources,
\* the one reported is the one the iteration happens to reach first.
validateGraph(storageNodes, adj) ==
  LET scan == ScanNodes(storageNodes, 1, {}, "")
      errs == {SourceError(src, adj[src], scan.nodeIDs, scan.startID) : src \in DOMAIN adj}
                \ {NoErr}
  IN
  CASE scan.err # NoErr -> {[startID |-> "", err |-> scan.err]}
    [] scan.startID = "" -> {[startID |-> "", err |-> <<"workflow has no start node">>]}
    [] errs # {} -> {[startID |-> "", err |-> e] : e \in errs}
    [] OTHER -> {[startID |-> scan.startID, err |-> NoErr]}

\* nextNode following the first edge whatever the branch
nextNodeIgnoringBranch(edges, branch) == IF Len(edges) = 0 THEN "" ELSE edges[1].TargetID

\* nextNode taking the last edge that matches instead of the first
nextNodeLastMatch(edges, branch) ==
  LET matches == {i \in DOMAIN edges :
                    IF branch = "" THEN edges[i].SourceHandle = NilHandle
                    ELSE edges[i].SourceHandle = Handle(branch)}
  IN
  CASE matches # {} -> edges[CHOOSE i \in matches : \A j \in matches : j <= i].TargetID
    [] branch = "" /\ Len(edges) > 0 -> edges[1].TargetID
    [] OTHER -> ""

\* nextNode falling back to the first edge when no handle equals the branch
nextNodeFallsBack(edges, branch) ==
  LET byBranch == FirstIndex(edges, LAMBDA e : e.SourceHandle # NilHandle
                                                /\ e.SourceHandle[1] = branch)
      plain == FirstIndex(edges, LAMBDA e : e.SourceHandle = NilHandle)
  IN
  CASE Len(edges) = 0 -> ""
    [] branch # "" /\ byBranch # 0 -> edges[byBranch].TargetID
    [] branch = "" /\ plain # 0 -> edges[plain].TargetID
    [] OTHER -> edges[1].TargetID

\* nextNode stopping when the branch is empty and every edge carries a handle
nextNodeNoFallback(edges, branch) ==
  LET byBranch == FirstIndex(edges, LAMBDA e : e.SourceHandle # NilHandle
                                                /\ e.SourceHandle[1] = branch)
      plain == FirstIndex(edges, LAMBDA e : e.SourceHandle = NilHandle)
  IN
  CASE Len(edges) = 0 -> ""
    [] branch # "" -> IF byBranch # 0 THEN edges[byBranch].TargetID ELSE ""
    [] plain # 0 -> edges[plain].TargetID
    [] OTHER -> ""

\* nextNode: the next node id, "" to stop
nextNode(edges, branch) ==
  LET byBranch == FirstIndex(edges, LAMBDA e : e.SourceHandle # NilHandle
                                                /\ e.SourceHandle[1] = branch)
      plain == FirstIndex(edges, LAMBDA e : e.SourceHandle = NilHandle)
  IN
  CASE Len(edges) = 0 -> ""
    [] branch # "" -> IF byBranch # 0 THEN edges[byBranch].TargetID ELSE ""
    [] plain # 0 -> edges[plain].TargetID
    [] OTHER -> edges[1].TargetID

\* the first loop of executeWorkflow: nodes.New then Validate for every storage node,
\* stopping at the first failure
RECURSIVE Materialize(_, _, _, _)
Materialize(storageNodes, deps, i, nodeMap) ==
  IF i > Len(storageNodes) THEN [err |-> NoErr, nodeMap |-> nodeMap]
  ELSE
    LET sn == storageNodes[i]
        made == New(sn, deps)
        verr == Validate(made.node)
    IN
    CASE made.err # NoErr ->
           [err |-> <<"failed to construct node ", sn.id, ": ">> \o made.err,
            nodeMap |-> nodeMap]
      [] verr # NoErr ->
           [err |-> <<"node ", sn.id, " failed validation: ">> \o verr, nodeMap |-> nodeMap]
      [] OTHER ->
           Materialize(storageNodes, deps, i + 1,
                       [id \in (DOMAIN nodeMap) \cup {sn.id} |->
                          IF id = sn.id THEN made.node ELSE nodeMap[id]])

(***************************************************************************)
(* State of one call of executeWorkflow                                    *)
(***************************************************************************)

VARIABLES
  wf,           \* the *storage.Workflow argument: [nodes, edges]
  inputs,       \* the inputs argument
  deps,         \* the nodes.Deps argument: which clients are non-nil
  plan,         \* what the capabilities behind deps answer (the adapters' behaviour)
  pc,           \* where the call is: "start", "loop", "exec", "done"
  ctxErr,       \* ctx.Err() of the workflow context: "" while it is live
  nodeTimedOut, \* the per-node context's own deadline has fired
  nodeMap,      \* nodeMap: id -> constructed node
  adjacency,    \* adjacency: source id -> outgoing edges
  bag,          \* nCtx.Variables
  steps,        \* steps
  currentID,    \* currentID
  ret,          \* what the call returned: [kind, status, failedNode, error]
  executed,     \* the ids of the nodes whose Execute was invoked, in order
  clientCalls,  \* number of calls made to the weather / flood capability
  lastErr,      \* the err of the latest "result, err := node.Execute(...)"
  lastBranch,   \* the result.Branch of the latest Execute ("" when it failed)
  cancelledAt,  \* where the call was when the workflow context was cancelled
  peer,         \* another call of executeWorkflow, made by a concurrent request
  tables,       \* the committed rows of one workflow: header, node instances, edges
  writers,      \* the open write transactions (UpsertWorkflow, DeleteWorkflow)
  reader        \* the GetWorkflow call in progress

\* the locals of this call, the bag apart
walkerLocals == <<wf, inputs, deps, plan, pc, ctxErr, nodeTimedOut, nodeMap, adjacency,
                  steps, currentID, ret, executed, clientCalls, lastErr, lastBranch,
                  cancelledAt>>

walkerVars == <<walkerLocals, bag>>

storeVars == <<tables, writers, reader>>

vars == <<walkerVars, peer, storeVars>>

callArgs == <<wf, inputs, deps, plan>>

NoReturn == [kind |-> "none", status |-> "", failedNode |-> "", error |-> NoErr]
HardError(err) == [kind |-> "error", status |-> "", failedNode |-> "", error |-> err]
Response(status, failedNode, error) ==
  [kind |-> "response", status |-> status, failedNode |-> failedNode, error |-> error]

\* a cancelled walk reported as a failure
CancelledAsFailed(id, cause) == Response("failed", id, <<"execution cancelled: ", cause>>)

\* the step limit reported as a normal end of the walk
LimitAsCompleted(id) == Response("completed", "", NoErr)

\* the step limit reported as an error value instead of a response
LimitAsError(id) == HardError(<<"workflow exceeded maximum execution steps">>)

\* a node error caused by a deadline reported as a cancellation
TimeoutAsCancelled(id, err) ==
  Response(IF err[Len(err)] = "context deadline exceeded" THEN "cancelled" ELSE "failed",
           id, <<"node ", id, " failed: ">> \o err)

\* the five responses executeWorkflow builds (Steps is the steps variable)
CancelledResponse(id, cause) == Response("cancelled", id, <<"execution cancelled: ", cause>>)
LimitResponse(id) == Response("failed", id, <<"workflow exceeded maximum execution steps">>)
NotFoundResponse(id) == Response("failed", id, <<"node ", id, " not found in workflow">>)
FailedResponse(id, err) == Response("failed", id, <<"node ", id, " failed: ">> \o err)
CompletedResponse == Response("completed", "", NoErr)

StepResult(info, status, output, error) ==
  [NodeID |-> info.id, Type |-> info.type, Status |-> status, Output |-> output,
   Error |-> error]

(***************************************************************************)
(* Capabilities.  A reply is {err, temp, risk, discharge, status, sent}.   *)
(***************************************************************************)

Reply(err, reading) ==
  [err |-> err, temp |-> reading, discharge |-> reading,
   risk |-> IF reading > DefaultThreshold THEN "high" ELSE "low",
   status |-> "sent", sent |-> TRUE, subjectOrder |-> <<>>, bodyOrder |-> <<>>]

\* the reading the lookup capability returns on its next call: hot for the first
\* plan.hot calls (for ever when it never cools), then cold
Reading == IF ~plan.cools \/ clientCalls < plan.hot THEN 30 ELSE 10

\* the per-node context is done when its parent is, or when its own deadline fired; it
\* keeps the error of whichever came first (nodeTimedOut is set only while the parent is
\* live, and a cancellation of the parent that comes later does not replace it)
NodeCtxErr ==
  IF nodeTimedOut THEN "context deadline exceeded" ELSE ctxErr

\* What a client call may return.  With the node's context done, a client that
\* honours it returns the context's error and one that ignores it (the stub)
\* returns normally; with the context live the call succeeds or fails upstream.
Replies ==
  {Reply(NoErr, Reading)} \cup
  (IF NodeCtxErr # "" THEN {Reply(<<NodeCtxErr>>, 0)}
   ELSE {Reply(<<"upstream failure">>, 0)})

(***************************************************************************)
(* executeWorkflow                                                         *)
(***************************************************************************)

\* Lines up to the walk: construct and validate every node, build the adjacency,
\* validate the graph, seed the variable bag.
Prepare ==
  /\ pc = "start"
  /\ LET built == Materialize(wf.nodes, deps, 1, EmptyMap)
         adj == BuildAdjacency(wf.edges)
     IN
     IF built.err # NoErr
     THEN /\ ret' = HardError(built.err)
          /\ pc' = "done"
          /\ UNCHANGED <<nodeMap, adjacency, currentID, bag>>
     ELSE \E g \in validateGraph(wf.nodes, adj) :
            /\ nodeMap' = built.nodeMap
            /\ adjacency' = adj
            /\ IF g.err # NoErr
               THEN /\ ret' = HardError(g.err)
                    /\ pc' = "done"
                    /\ UNCHANGED <<currentID, bag>>
               ELSE /\ currentID' = g.startID
                    /\ bag' = MergeInto(EmptyMap, inputs)
                    /\ pc' = "loop"
                    /\ UNCHANGED ret
  /\ UNCHANGED <<callArgs, ctxErr, nodeTimedOut, steps, executed, clientCalls, lastErr,
                 lastBranch, cancelledAt>>
  /\ UNCHANGED <<peer, storeVars>>

\* the walk without its check of the workflow context
CtxUnchecked == FALSE

\* "if err := ctx.Err(); err != nil"
CtxDone == ctxErr # ""

\* the guard with > for >=
StepLimitOffByOne == Len(steps) > maxExecutionSteps

\* the guard firing one step early
StepLimitEarly == Len(steps) >= maxExecutionSteps - 1

\* "len(steps) >= maxExecutionSteps"
StepLimitReached == Len(steps) >= maxExecutionSteps

\* the error branch without its append
WithoutFailedStep(ss, node, err) == ss

\* steps = append(steps, StepResult{... Status: "error", Error: err.Error()})
WithFailedStep(ss, node, err) == Append(ss, StepResult(node, "error", EmptyMap, err))

\* steps = append(steps, StepResult{... Status: result.Status, Output: result.Output})
WithStep(ss, node, result) ==
  Append(ss, StepResult(node, result.status, result.output, NoErr))

\* The head of one iteration: the loop condition and the three guards, then the
\* call of node.Execute under a fresh per-node context.
Iterate ==
  /\ pc = "loop"
  /\ CASE currentID = "" ->
            /\ ret' = CompletedResponse
            /\ pc' = "done"
            /\ UNCHANGED <<nodeTimedOut, executed>>
       [] CtxDone ->
            /\ ret' = CancelledResponse(currentID, ctxErr)
            /\ pc' = "done"
            /\ UNCHANGED <<nodeTimedOut, executed>>
       [] StepLimitReached ->
            /\ ret' = LimitResponse(currentID)
            /\ pc' = "done"
            /\ UNCHANGED <<nodeTimedOut, executed>>
       [] currentID \notin DOMAIN nodeMap ->
            /\ ret' = NotFoundResponse(currentID)
            /\ pc' = "done"
            /\ UNCHANGED <<nodeTimedOut, executed>>
       [] OTHER ->
            /\ pc' = "exec"
            /\ nodeTimedOut' = FALSE
            /\ executed' = Append(executed, currentID)
            /\ UNCHANGED ret
  /\ UNCHANGED <<callArgs, ctxErr, nodeMap, adjacency, bag, steps, currentID, clientCalls,
                 lastErr, lastBranch, cancelledAt>>
  /\ UNCHANGED <<peer, storeVars>>

\* the reply together with the orders in which the email node's two calls of
\* resolveTemplate range over the variables
Ranged(node, variables, answer) ==
  IF node.type # "email" THEN {answer}
  ELSE {[answer EXCEPT !.subjectOrder = so, !.bodyOrder = bo] :
          so \in RangeOrders(node.m.subject, variables), bo \in RangeOrders(node.m.body, variables)}

\* what node.Execute can return in the current state: one result for each answer of
\* its client and each order of its ranges
Results(node) ==
  {Execute(node, bag, reply) :
     reply \in UNION {Ranged(node, bag, answer) :
                        answer \in IF CallsClient(node, bag) THEN Replies
                                   ELSE {Reply(NoErr, 0)}}}

\* node.Execute returns: the rest of the iteration
NodeReturns ==
  /\ pc = "exec"
  /\ \E node \in {nodeMap[currentID]} :
     \E calls \in {CallsClient(node, bag)} :
     \E result \in Results(node) :
       /\ lastErr' = result.err
       /\ lastBranch' = result.branch
       /\ clientCalls' = IF calls /\ node.type \in {"integration", "flood"}
                         THEN clientCalls + 1 ELSE clientCalls
       /\ IF result.err # NoErr
          THEN /\ steps' = WithFailedStep(steps, node, result.err)
               /\ ret' = FailedResponse(node.id, result.err)
               /\ pc' = "done"
               /\ UNCHANGED <<bag, currentID>>
          ELSE /\ bag' = MergeInto(bag, result.output)
               /\ steps' = WithStep(steps, node, result)
               /\ currentID' = nextNode(EdgesOf(adjacency, currentID), result.branch)
               /\ pc' = "loop"
               /\ UNCHANGED ret
  /\ nodeTimedOut' = FALSE
  /\ UNCHANGED <<callArgs, ctxErr, nodeMap, adjacency, executed, cancelledAt>>
  /\ UNCHANGED <<peer, storeVars>>

(***************************************************************************)
(* The environment: the caller's token, and the two deadlines              *)
(***************************************************************************)

\* the caller cancels the parent context (before or during the call)
CallerCancels ==
  /\ pc # "done"
  /\ ctxErr = ""
  /\ ctxErr' = "context canceled"
  /\ cancelledAt' = pc
  /\ UNCHANGED <<callArgs, pc, nodeTimedOut, nodeMap, adjacency, bag, steps, currentID, ret,
                 executed, clientCalls, lastErr, lastBranch>>
  /\ UNCHANGED <<peer, storeVars>>

\* context.WithTimeout(ctx, workflowTimeout) fires
WorkflowDeadline ==
  /\ pc # "done"
  /\ ctxErr = ""
  /\ ctxErr' = "context deadline exceeded"
  /\ cancelledAt' = pc
  /\ UNCHANGED <<callArgs, pc, nodeTimedOut, nodeMap, adjacency, bag, steps, currentID, ret,
                 executed, clientCalls, lastErr, lastBranch>>
  /\ UNCHANGED <<peer, storeVars>>

\* context.WithTimeout(ctx, nodeTimeout) fires while the node is in its client call;
\* on a context that the parent has cancelled already the timer changes nothing
NodeDeadline ==
  /\ pc = "exec"
  /\ ~nodeTimedOut
  /\ ctxErr = ""
  /\ CallsClient(nodeMap[currentID], bag)
  /\ nodeTimedOut' = TRUE
  /\ UNCHANGED <<callArgs, pc, ctxErr, nodeMap, adjacency, bag, steps, currentID, ret,
                 executed, clientCalls, lastErr, lastBranch, cancelledAt>>
  /\ UNCHANGED <<peer, storeVars>>

(***************************************************************************)
(* The calls checked: every small workflow over two instance ids with up   *)
(* to MaxEdges edges (forward, looping, dangling; plain or with a handle), *)
(* and the seeded workflows under varied inputs and capability behaviour.  *)
(***************************************************************************)

AllDeps == [Weather |-> TRUE, Email |-> TRUE, SMS |-> TRUE, Flood |-> TRUE]
NoEmailDeps == [AllDeps EXCEPT !.Email = FALSE]

NeverCools == [cools |-> FALSE, hot |-> 0]
CoolsAfter(h) == [cools |-> TRUE, hot |-> h]
\* cooling so late that the exit branch is taken on the 100th step
LateCooling == CoolsAfter((maxExecutionSteps - 4) \div 3)

Plans == {NeverCools, LateCooling} \cup {CoolsAfter(h) : h \in 0..MaxHot}

\* node lists whose walk reads nothing from the bag
SentinelNodeLists ==
  { <<StorageNode("s", "start", "empty"), StorageNode("a", "end", "empty")>>,
    <<StorageNode("s", "start", "not_json"), StorageNode("a", "start", "empty")>>,
    <<StorageNode("s", "start", "empty"), StorageNode("s", "end", "empty")>>,
    <<StorageNode("a", "end", "empty")>>,
    <<StorageNode("s", "start", "empty"), StorageNode("a", "webhook", "empty")>>,
    <<StorageNode("s", "start", "empty"), StorageNode("a", "form", "form_noinput")>>,
    <<StorageNode("s", "start", "empty"), StorageNode("a", "condition", "not_json")>> }

\* node lists with a node that reads the bag
ReadingNodeLists ==
  { <<StorageNode("s", "start", "empty"), StorageNode("a", "condition", "cond_ok")>>,
    <<StorageNode("s", "start", "empty"), StorageNode("a", "sms", "sms_ok")>> }

\* forward, self-loop, back into the first node, and an id "x" that no node has
EdgeEnds == {<<"s", "a">>, <<"a", "a">>, <<"a", "s">>, <<"s", "s">>, <<"a", "x">>, <<"x", "a">>}

EdgePool == {StorageEdge(e[1], e[2], h) : e \in EdgeEnds, h \in {NilHandle, Handle("true")}}

EdgeLists == UNION {[1..n -> EdgePool] : n \in 0..MaxEdges}

SmallInputs ==
  { EmptyMap,
    [temperature |-> Num(30), phone |-> Str("+61400000000")],
    [temperature |-> Num(10), phone |-> Str("+61400000000")] }

SmallCall(ns, es, inp) ==
  [wf |-> [nodes |-> ns, edges |-> es], inputs |-> inp, deps |-> AllDeps, plan |-> NeverCools]

\* V1 seed: start -> form -> weather-api -> condition -(true)-> email -> end,
\*          condition -(false)-> end
SeedNodes ==
  <<StorageNode("start", "start", "empty"),
    StorageNode("form", "form", "form_ok"),
    StorageNode("weather-api", "integration", "weather_ok"),
    StorageNode("condition", "condition", "cond_ok"),
    StorageNode("email", "email", "email_ok"),
    StorageNode("end", "end", "empty")>>

LinearEdges ==
  <<StorageEdge("start", "form", NilHandle),
    StorageEdge("form", "weather-api", NilHandle),
    StorageEdge("weather-api", "condition", NilHandle),
    StorageEdge("condition", "email", Handle("true")),
    StorageEdge("condition", "end", Handle("false")),
    StorageEdge("email", "end", NilHandle)>>

\* V6 seed: the while-loop, email -> weather-api is the back-edge
LoopEdges ==
  <<StorageEdge("start", "form", NilHandle),
    StorageEdge("form", "weather-api", NilHandle),
    StorageEdge("weather-api", "condition", NilHandle),
    StorageEdge("condition", "email", Handle("true")),
    StorageEdge("condition", "end", Handle("false")),
    StorageEdge("email", "weather-api", NilHandle)>>

\* the linear workflow with rival edges: a handled edge listed before the plain one,
\* only handled edges out of a node that returns no branch, and for each handle of
\* the condition a second edge listed after the first
ForkEdges ==
  <<StorageEdge("start", "form", NilHandle),
    StorageEdge("start", "end", NilHandle),
    StorageEdge("form", "end", Handle("skip")),
    StorageEdge("form", "weather-api", NilHandle),
    StorageEdge("weather-api", "condition", Handle("next")),
    StorageEdge("weather-api", "end", Handle("other")),
    StorageEdge("condition", "email", Handle("true")),
    StorageEdge("condition", "end", Handle("false")),
    StorageEdge("condition", "end", Handle("true")),
    StorageEdge("condition", "email", Handle("false")),
    StorageEdge("email", "end", NilHandle)>>

AliceInputs ==
  [name |-> Str("Alice"), email |-> Str("alice@example.com"), city |-> Str("Sydney"),
   operator |-> Str("greater_than"), threshold |-> Num(25)]

SeedInputs ==
  { AliceInputs,
    [AliceInputs EXCEPT !.city = Str("SYDNEY")],
    [AliceInputs EXCEPT !.city = Str("Perth")],
    [AliceInputs EXCEPT !.operator = Str("less_than")],
    [AliceInputs EXCEPT !.operator = Str("between")],
    [AliceInputs EXCEPT !.email = Str("")],
    [k \in {"name", "email"} |-> AliceInputs[k]] }

SeedCall(es, inp, d, p) ==
  [wf |-> [nodes |-> SeedNodes, edges |-> es], inputs |-> inp, deps |-> d, plan |-> p]

\* the linear workflow with the email template of the node tests, which greets by
\* name, and inputs whose name is itself the text of a placeholder
NamedNodes == [SeedNodes EXCEPT ![5] = StorageNode("email", "email", "email_named")]

NamedInputs == {AliceInputs, [AliceInputs EXCEPT !.name = Text(<<Ph("city")>>)]}

NamedCall(inp) ==
  [wf |-> [nodes |-> NamedNodes, edges |-> LinearEdges], inputs |-> inp, deps |-> AllDeps,
   plan |-> NeverCools]

\* the arguments of the call are c
CallIs(c) ==
  /\ wf = c.wf
  /\ inputs = c.inputs
  /\ deps = c.deps
  /\ plan = c.plan

(***************************************************************************)
(* Storage: the rows of one workflow id in PostgreSQL, with the node       *)
(* library and the workflow's snapshots.  tables is what is committed.  A  *)
(* write transaction keeps what it wrote to itself until it commits; under *)
(* READ COMMITTED each of its statements sees what is committed when the   *)
(* statement runs, and waits for a row that another open transaction has   *)
(* written; under REPEATABLE READ every statement sees what was committed  *)
(* when the first one ran.  A query without ORDER BY returns its rows in   *)
(* an order the database chooses.                                          *)
(***************************************************************************)

TxIDs == {"w1", "w2"}

\* the workflow values a client saves: those of one start node, told apart by its
\* position, one with a form, and one naming a node type that the library does not have
Saves == 1..MaxSaves
FormSave == 0
UnknownTypeSave == MaxSaves + 1

TheWorkflow == "wf"

\* node_library: the node_type of each entry.  a12 and a19 are both of type form
\* (V4 adds a19 beside a12)
LibraryType == [a11 |-> "start", a12 |-> "form", a19 |-> "form"]
LibraryIDs == DOMAIN LibraryType

\* the entry that the environment soft-deletes
Retired == {"a12"}

\* Node: id, type, position, and data (label, description and metadata, named by the
\* library entry they are those of)
Node(id, type, pos, data) == [id |-> id, type |-> type, pos |-> pos, data |-> data]

\* Edge: id, source, target, and the display columns (named by one number)
Edge(id, source, target, label) ==
  [id |-> id, source |-> source, target |-> target, label |-> label]

\* the value of save v, as the client sends it
WorkflowValue(v) ==
  IF v = FormSave
  THEN [nodes |-> <<Node("start", "start", v, "a11"), Node("form", "form", v, "a12")>>,
        edges |-> <<Edge("e1", "start", "form", v)>>]
  ELSE IF v = UnknownTypeSave
  THEN [nodes |-> <<Node("start", "start", v, "a11"), Node("hook", "webhook", v, "a11")>>,
        edges |-> <<Edge("e1", "start", "hook", v)>>]
  ELSE [nodes |-> <<Node("start", "start", v, "a11")>>,
        edges |-> <<Edge("e1", "start", "start", v)>>]

\* the orders in which a query can return a set of rows
Orders(rows) ==
  {order \in [1..Cardinality(rows) -> rows] :
     \A i, j \in DOMAIN order : i # j => order[i] # order[j]}

\* a row of workflows: name (every value is saved under its own name), deleted_at,
\* status and active_snapshot_id (0 is NULL)
NoHeader ==
  [present |-> FALSE, name |-> 0, deleted |-> FALSE, status |-> "draft", active |-> 0]
Header(v) == [NoHeader EXCEPT !.present = TRUE, !.name = v]

\* rows of workflow_node_instances and of workflow_edges
InstanceRow(node, lib) == [id |-> node.id, lib |-> lib, pos |-> node.pos]
InstanceRows(v, lookup) ==
  {InstanceRow(node, lookup[node.type]) : node \in Range(WorkflowValue(v).nodes)}
EdgeRows(v) == Range(WorkflowValue(v).edges)

\* the committed state; revived tells that the last commit was an upsert of the
\* workflow while it was soft-deleted
Rows(header, nodeRows, edgeRows, libDeleted, snapshots, revived) ==
  [header |-> header, nodes |-> nodeRows, edges |-> edgeRows,
   libDeleted |-> libDeleted, snapshots |-> snapshots, revived |-> revived]

\* the seed of the migrations: a workflow with its form placed from a12
SeedLookup == [start |-> "a11", form |-> "a12"]
SeededTables ==
  Rows(Header(FormSave), InstanceRows(FormSave, SeedLookup), EdgeRows(FormSave), {}, <<>>,
       FALSE)
EmptyTables == Rows(NoHeader, {}, {}, {}, <<>>, FALSE)

\* the rows of the workflow itself: its header, its node instances and its edges
Stored(t) == [header |-> t.header, nodes |-> t.nodes, edges |-> t.edges]

NoDag == [nodes |-> <<>>, edges |-> <<>>]
NoCall == [call |-> "none", outcome |-> "none"]

NoTx ==
  [op |-> "none", at |-> 0, save |-> 0, wroteHeader |-> FALSE, header |-> NoHeader,
   delNodes |-> {}, insNodes |-> {}, delEdges |-> {}, insEdges |-> {},
   stale |-> FALSE, dag |-> NoDag, version |-> 0, insSnapshot |-> FALSE,
   revives |-> FALSE, before |-> Stored(EmptyTables), snap |-> EmptyTables,
   res |-> NoCall]

\* a call that returned an error: the writer is idle and keeps the call and the error
Ended(call, outcome) == [NoTx EXCEPT !.res = [call |-> call, outcome |-> outcome]]

\* what a statement of transaction w sees
SeenHeader(w) == IF writers[w].wroteHeader THEN writers[w].header ELSE tables.header
SeenNodes(w) == (tables.nodes \ writers[w].delNodes) \cup writers[w].insNodes
SeenEdges(w) == (tables.edges \ writers[w].delEdges) \cup writers[w].insEdges

\* a table without row locks
NeverLocked(w) == FALSE

\* rows that another open transaction has written, for which a statement waits
HeaderLocked(w) == \E o \in TxIDs \ {w} : writers[o].wroteHeader
NodesLocked(w, rows) == \E o \in TxIDs \ {w} : rows \cap writers[o].delNodes # {}
EdgesLocked(w, rows) == \E o \in TxIDs \ {w} : rows \cap writers[o].delEdges # {}

\* the snapshot row that a publishing transaction inserted
SnapshotRow(w) ==
  [workflow |-> TheWorkflow, version |-> writers[w].version, dag |-> writers[w].dag]

\* a publish that keeps one snapshot row per workflow and overwrites it
OverwrittenSnapshots(w) ==
  IF writers[w].insSnapshot THEN <<SnapshotRow(w)>> ELSE tables.snapshots

SeenSnapshots(w) ==
  IF writers[w].insSnapshot THEN Append(tables.snapshots, SnapshotRow(w))
  ELSE tables.snapshots

\* the tables once transaction w has committed
Committed(w) ==
  Rows(SeenHeader(w), SeenNodes(w), SeenEdges(w), tables.libDeleted, SeenSnapshots(w),
       writers[w].revives)

\* the tables had the header statement been committed on its own
HeaderWritten(w) == [tables EXCEPT !.header = SeenHeader(w)]

\* the tables once transaction w has rolled back
RolledBack(w) == tables

\* an upsert that writes the row anew, with the defaults of the schema
ReplacedHeader(old, v) == Header(v)

\* INSERT INTO workflows ... ON CONFLICT (id) DO UPDATE SET name, modified_at,
\* deleted_at = NULL: the other columns of an existing row stay, a new row gets the
\* defaults of the schema
UpsertedHeader(old, v) ==
  IF old.present THEN [old EXCEPT !.name = v, !.deleted = FALSE] ELSE Header(v)

\* UpsertWorkflow, statement 1: BeginTx and the header upsert
UpsertHeader(w, v) ==
  /\ writers[w].op = "none"
  /\ ~HeaderLocked(w)
  /\ writers' = [writers EXCEPT ![w] = [NoTx EXCEPT !.op = "upsert", !.at = 2, !.save = v,
                                                     !.wroteHeader = TRUE,
                                                     !.header = UpsertedHeader(tables.header, v),
                                                     !.revives = tables.header.present
                                                                   /\ tables.header.deleted,
                                                     !.before = Stored(tables)]]
  /\ UNCHANGED <<tables, reader, walkerVars, peer>>

\* UpsertWorkflow with its wait made a state: BeginTx, and the header upsert is sent
UpsertBegin(w, v) ==
  /\ writers[w].op = "none"
  /\ writers' = [writers EXCEPT ![w] = [NoTx EXCEPT !.op = "upsert", !.at = 1, !.save = v]]
  /\ UNCHANGED <<tables, reader, walkerVars, peer>>

\* statement 1 runs once no other open transaction has written the row
UpsertHeaderRuns(w) ==
  /\ writers[w].op = "upsert" /\ writers[w].at = 1
  /\ ~HeaderLocked(w)
  /\ writers' = [writers EXCEPT ![w].at = 2, ![w].wroteHeader = TRUE,
                                ![w].header = UpsertedHeader(tables.header, writers[w].save),
                                ![w].revives = tables.header.present /\ tables.header.deleted,
                                ![w].before = Stored(tables)]
  /\ UNCHANGED <<tables, reader, walkerVars, peer>>

\* statement 2: DELETE FROM workflow_node_instances WHERE workflow_id = $1; the edges
\* hang on the instances by their composite foreign keys and go with them
UpsertDeleteNodes(w) ==
  /\ writers[w].op = "upsert" /\ writers[w].at = 2
  /\ ~NodesLocked(w, SeenNodes(w)) /\ ~EdgesLocked(w, SeenEdges(w))
  /\ writers' = [writers EXCEPT ![w].delNodes = tables.nodes, ![w].delEdges = tables.edges,
                                ![w].at = 3]
  /\ UNCHANGED <<tables, reader, walkerVars, peer>>

\* nodeLibraryIDs: "SELECT id, node_type FROM node_library" scanned into a map by
\* node_type; of two entries of one type the one scanned last stays, and the query has
\* no ORDER BY and no deleted_at filter
TypeLookups ==
  {lookup \in [{LibraryType[l] : l \in LibraryIDs} -> LibraryIDs] :
     \A t \in DOMAIN lookup : LibraryType[lookup[t]] = t}

\* "nodeLibraryID, ok := nodeLibraryIDs[node.Type]" for every node of the value
TypesKnown(v) ==
  \A node \in Range(WorkflowValue(v).nodes) : \E l \in LibraryIDs : LibraryType[l] = node.type

\* statement 3: the node_library lookup and one INSERT per node; a node type that the
\* library does not have returns the error, and the deferred tx.Rollback runs
UpsertInsertNodes(w) ==
  /\ writers[w].op = "upsert" /\ writers[w].at = 3
  /\ IF TypesKnown(writers[w].save)
     THEN /\ \E lookup \in TypeLookups :
               writers' = [writers EXCEPT ![w].insNodes = InstanceRows(writers[w].save, lookup),
                                          ![w].at = 4]
          /\ tables' = tables
     ELSE /\ tables' = RolledBack(w)
          /\ writers' = [writers EXCEPT ![w] = Ended("upsert", "error")]
  /\ UNCHANGED <<reader, walkerVars, peer>>

\* statement 4: DELETE FROM workflow_edges WHERE workflow_id = $1
UpsertDeleteEdges(w) ==
  /\ writers[w].op = "upsert" /\ writers[w].at = 4
  /\ ~EdgesLocked(w, SeenEdges(w))
  /\ writers' = [writers EXCEPT ![w].delEdges = @ \cup tables.edges, ![w].at = 5]
  /\ UNCHANGED <<tables, reader, walkerVars, peer>>

\* statement 5: one INSERT per edge
UpsertInsertEdges(w) ==
  /\ writers[w].op = "upsert" /\ writers[w].at = 5
  /\ writers' = [writers EXCEPT ![w].insEdges = EdgeRows(writers[w].save), ![w].at = 6]
  /\ UNCHANGED <<tables, reader, walkerVars, peer>>

\* DeleteWorkflow, statement 1: BeginTx and DELETE FROM workflow_edges
DeleteEdges(w) ==
  /\ writers[w].op = "none"
  /\ ~EdgesLocked(w, tables.edges)
  /\ writers' = [writers EXCEPT ![w] = [NoTx EXCEPT !.op = "delete", !.at = 2,
                                                     !.delEdges = tables.edges]]
  /\ UNCHANGED <<tables, reader, walkerVars, peer>>

\* statement 2: DELETE FROM workflow_node_instances (and the edges hanging on them)
DeleteNodes(w) ==
  /\ writers[w].op = "delete" /\ writers[w].at = 2
  /\ ~NodesLocked(w, SeenNodes(w)) /\ ~EdgesLocked(w, SeenEdges(w))
  /\ writers' = [writers EXCEPT ![w].delNodes = tables.nodes,
                                ![w].delEdges = @ \cup tables.edges, ![w].at = 3]
  /\ UNCHANGED <<tables, reader, walkerVars, peer>>

\* statement 3: UPDATE workflows SET deleted_at = $1, modified_at = $1 WHERE id = $2.
\* It waits for a committed row that another open transaction has written; a row that
\* another transaction has inserted and not committed it does not see.  With no row
\* affected the call returns pgx.ErrNoRows and the deferred Rollback runs
SoftDeleteHeader(w) ==
  /\ writers[w].op = "delete" /\ writers[w].at = 3
  /\ tables.header.present => ~HeaderLocked(w)
  /\ IF tables.header.present
     THEN writers' = [writers EXCEPT ![w].wroteHeader = TRUE,
                                     ![w].header = [tables.header EXCEPT !.deleted = TRUE],
                                     ![w].at = 6]
     ELSE writers' = [writers EXCEPT ![w] = Ended("delete", "notfound")]
  /\ UNCHANGED <<tables, reader, walkerVars, peer>>

\* a filter that leaves deleted_at out
VisibleThoughDeleted(header) == header.present

\* "deleted_at IS NULL" on the workflows row, in the first query of GetWorkflow, of
\* PublishWorkflow and in the join of GetActiveSnapshot
Visible(header) == header.present /\ ~header.deleted

\* hydrateNodes: the instances of the workflow joined to their library entries, those
\* of a soft-deleted entry left out; no ORDER BY
HydratedNodes(view) ==
  {Node(row.id, LibraryType[row.lib], row.pos, row.lib) :
     row \in {r \in view.nodes : r.lib \notin view.libDeleted}}

hydrateNodes(view) == Orders(HydratedNodes(view))

\* hydrateEdges: the edge rows of the workflow; no ORDER BY
hydrateEdges(view) == Orders(view.edges)

\* SELECT COALESCE(MAX(version_number), 0) + 1 FROM workflow_snapshots
MaxVersion(snapshots) ==
  IF snapshots = <<>> THEN 0
  ELSE CHOOSE m \in {s.version : s \in Range(snapshots)} :
         \A s \in Range(snapshots) : s.version <= m

\* a version numbering that leaves one out
SkippedVersion(snapshots) == MaxVersion(snapshots) + 2

NextVersion(snapshots) == MaxVersion(snapshots) + 1

\* UNIQUE(workflow_id, version_number): a committed row with the version fails the
\* insert, whatever the snapshot of the transaction shows
VersionTaken(version) == \E s \in Range(tables.snapshots) : s.version = version

\* the tables that GetWorkflow reads, as committed now
LiveTables == [tables EXCEPT !.snapshots = <<>>]

\* every statement reading what is committed when it runs
ReadCommittedView(r) == LiveTables

\* IsoLevel: pgx.RepeatableRead: every statement of the transaction reads the state
\* that was committed when its first statement ran
View(r) == r.snap

\* PublishWorkflow, the reads: BeginTx (REPEATABLE READ), SELECT name FROM workflows
\* WHERE id = $1 AND deleted_at IS NULL (no row is pgx.ErrNoRows), hydrateNodes,
\* hydrateEdges and the next version number.  All four read the state committed when
\* the first one runs, so they are one step
PublishRead(w) ==
  /\ writers[w].op = "none"
  /\ Len(tables.snapshots) < MaxPublishes
  /\ IF Visible(tables.header)
     THEN \E nodes \in hydrateNodes(tables), edges \in hydrateEdges(tables) :
            writers' = [writers EXCEPT ![w] =
                          [NoTx EXCEPT !.op = "publish", !.at = 4,
                                       !.dag = [nodes |-> nodes, edges |-> edges],
                                       !.version = NextVersion(tables.snapshots)]]
     ELSE writers' = [writers EXCEPT ![w] = Ended("publish", "notfound")]
  /\ UNCHANGED <<tables, reader, walkerVars, peer>>

\* PublishWorkflow, the reads one by one.  BeginTx (REPEATABLE READ) and query 1, SELECT
\* name FROM workflows WHERE id = $1 AND deleted_at IS NULL: the transaction takes its
\* snapshot
PublishBegin(w) ==
  /\ writers[w].op = "none"
  /\ Len(tables.snapshots) < MaxPublishes
  /\ \E tx \in {[NoTx EXCEPT !.op = "publish", !.at = 1, !.snap = tables]} :
       IF Visible(View(tx).header)
       THEN writers' = [writers EXCEPT ![w] = tx]
       ELSE writers' = [writers EXCEPT ![w] = Ended("publish", "notfound")]
  /\ UNCHANGED <<tables, reader, walkerVars, peer>>

\* query 2: hydrateNodes(timeoutCtx, tx, id)
PublishHydrateNodes(w) ==
  /\ writers[w].op = "publish" /\ writers[w].at = 1
  /\ \E nodes \in hydrateNodes(View(writers[w])) :
       writers' = [writers EXCEPT ![w].dag.nodes = nodes, ![w].at = 2]
  /\ UNCHANGED <<tables, reader, walkerVars, peer>>

\* query 3: hydrateEdges(timeoutCtx, tx, id)
PublishHydrateEdges(w) ==
  /\ writers[w].op = "publish" /\ writers[w].at = 2
  /\ \E edges \in hydrateEdges(View(writers[w])) :
       writers' = [writers EXCEPT ![w].dag.edges = edges, ![w].at = 3]
  /\ UNCHANGED <<tables, reader, walkerVars, peer>>

\* query 4: the next version number
PublishNextVersion(w) ==
  /\ writers[w].op = "publish" /\ writers[w].at = 3
  /\ writers' = [writers EXCEPT ![w].version = NextVersion(View(writers[w]).snapshots),
                                ![w].at = 4]
  /\ UNCHANGED <<tables, reader, walkerVars, peer>>

\* an uncommitted row with the version makes the insert wait
VersionLocked(w, version) ==
  \E o \in TxIDs \ {w} : writers[o].insSnapshot /\ writers[o].version = version

\* INSERT INTO workflow_snapshots: a unique violation returns the error and the
\* deferred tx.Rollback runs
PublishInsert(w) ==
  /\ writers[w].op = "publish" /\ writers[w].at = 4
  /\ ~VersionLocked(w, writers[w].version)
  /\ IF VersionTaken(writers[w].version)
     THEN writers' = [writers EXCEPT ![w] = Ended("publish", "error")]
     ELSE writers' = [writers EXCEPT ![w].insSnapshot = TRUE, ![w].at = 5]
  /\ UNCHANGED <<tables, reader, walkerVars, peer>>

\* an update that sets the pointer and leaves the status
Pointed(header, id) == [header EXCEPT !.active = id]

\* SET status = 'published', active_snapshot_id = $1
Activated(header, id) == [header EXCEPT !.status = "published", !.active = id]

\* UPDATE workflows SET status = 'published', active_snapshot_id = $1 WHERE id = $2.
\* Under REPEATABLE READ a row that a transaction wrote and committed after the snapshot
\* was taken, whatever it wrote, fails the update (serialization failure), and the
\* deferred tx.Rollback runs
PublishActivate(w) ==
  /\ writers[w].op = "publish" /\ writers[w].at = 5
  /\ ~HeaderLocked(w)
  /\ IF ~writers[w].stale
     THEN writers' = [writers EXCEPT ![w].wroteHeader = TRUE,
                                     ![w].header = Activated(tables.header,
                                                               Len(tables.snapshots) + 1),
                                     ![w].at = 6]
     ELSE writers' = [writers EXCEPT ![w] = Ended("publish", "error")]
  /\ UNCHANGED <<tables, reader, walkerVars, peer>>

\* GetWorkflow and the load of HandleExecuteWorkflow
NotFound ==
  [found |-> FALSE, failed |-> FALSE, source |-> "none", name |-> 0,
   nodes |-> <<>>, edges |-> <<>>]
ReadError == [NotFound EXCEPT !.failed = TRUE]

\* what the query of GetActiveSnapshot met: a soft-deleted workflow, an active snapshot
NoSeen == [deleted |-> FALSE, dags |-> {}]

IdleReader ==
  [kind |-> "get", pc |-> "idle", snap |-> EmptyTables, got |-> NotFound, raced |-> FALSE,
   dirty |-> FALSE, prev |-> NotFound, seen |-> NoSeen,
   snapshotFound |-> FALSE, liveQueries |-> 0]

\* the reader once something has been committed: a read in progress has been raced,
\* and the result of the last read is no longer one to compare the next with
Disturbed ==
  IF reader.kind = "get"
  THEN [reader EXCEPT !.raced = @ \/ reader.pc \in {"nodes", "edges"}, !.dirty = TRUE,
                      !.prev = NotFound]
  ELSE reader

\* the open transactions once w has committed: a REPEATABLE READ transaction (a publish)
\* whose snapshot is older than a write of the workflows row holds a stale row
AfterCommit(w) ==
  [o \in TxIDs |->
     IF o = w THEN NoTx
     ELSE IF writers[o].op = "publish" /\ writers[w].wroteHeader
     THEN [writers[o] EXCEPT !.stale = TRUE]
     ELSE writers[o]]

\* tx.Commit: what the transaction wrote becomes the committed state, at once
Commit(w) ==
  /\ writers[w].at = 6
  /\ tables' = Committed(w)
  /\ writers' = AfterCommit(w)
  /\ reader' = Disturbed
  /\ UNCHANGED <<walkerVars, peer>>

\* a statement fails (a constraint, the timeout, a deadlock broken by the database)
\* and the deferred tx.Rollback drops what was written
Rollback(w) ==
  /\ writers[w].op # "none"
  /\ tables' = RolledBack(w)
  /\ writers' = [writers EXCEPT ![w] = Ended(writers[w].op, "error")]
  /\ UNCHANGED <<reader, walkerVars, peer>>

\* the environment soft-deletes a library entry: UPDATE node_library SET deleted_at
RetireLibraryEntry ==
  /\ \E l \in Retired \ tables.libDeleted :
       tables' = [tables EXCEPT !.libDeleted = @ \cup {l},
                                !.revived = FALSE]
  /\ reader' = Disturbed
  /\ UNCHANGED <<writers, walkerVars, peer>>

\* GetWorkflow, query 1: SELECT ... FROM workflows WHERE id = $1 AND deleted_at IS NULL;
\* no row is pgx.ErrNoRows
HeaderQuery(r) ==
  LET h == View(r).header
  IN IF Visible(h)
     THEN [r EXCEPT !.pc = "nodes", !.liveQueries = @ + 1,
                    !.got = [NotFound EXCEPT !.name = h.name, !.source = "live"]]
     ELSE [r EXCEPT !.pc = "done", !.liveQueries = @ + 1]

\* a read request: GetWorkflow begins; the result of the read before it is kept to
\* compare when nothing has been committed since that read began
ReadHeader ==
  /\ reader.pc \in {"idle", "done"}
  /\ reader' = HeaderQuery([IdleReader EXCEPT
                              !.snap = LiveTables,
                              !.prev = IF reader.kind = "get" /\ ~reader.dirty
                                       THEN reader.got ELSE NotFound])
  /\ UNCHANGED <<tables, writers, walkerVars, peer>>

\* query 2: hydrateNodes
ReadNodes ==
  /\ reader.pc = "nodes"
  /\ \E nodes \in hydrateNodes(View(reader)) :
       reader' = [reader EXCEPT !.pc = "edges", !.got.nodes = nodes, !.liveQueries = @ + 1]
  /\ UNCHANGED <<tables, writers, walkerVars, peer>>

\* query 3: hydrateEdges, and "return wf, tx.Commit(timeoutCtx)"
ReadEdges ==
  /\ reader.pc = "edges"
  /\ \E edges \in hydrateEdges(View(reader)) :
       reader' = [reader EXCEPT !.pc = "done", !.got.edges = edges, !.got.found = TRUE,
                                !.liveQueries = @ + 1]
  /\ UNCHANGED <<tables, writers, walkerVars, peer>>

\* a query fails (the 5 s timeout): GetWorkflow returns the error
ReadFails ==
  /\ reader.pc \in {"nodes", "edges"}
  /\ reader' = [reader EXCEPT !.pc = "done", !.got = ReadError]
  /\ UNCHANGED <<tables, writers, walkerVars, peer>>

\* GetActiveSnapshot: one query outside any transaction, workflow_snapshots joined to
\* workflows ON w.active_snapshot_id = s.id WHERE w.id = $1 AND w.deleted_at IS NULL;
\* 0 is pgx.ErrNoRows, else the number of the row
GetActiveSnapshot(t) ==
  IF Visible(t.header) /\ t.header.active \in DOMAIN t.snapshots THEN t.header.active ELSE 0

\* a handler that always loads the live workflow
RunsLive(id) == FALSE

\* HandleExecuteWorkflow: "if snapshot != nil" runs the graph of the snapshot
RunsSnapshot(id) == id # 0


\* the graph of the snapshot that the workflow, not soft-deleted, has as its active one
ActiveDags ==
  {tables.snapshots[i].dag :
     i \in {j \in DOMAIN tables.snapshots :
              /\ tables.header.present /\ ~tables.header.deleted
              /\ j = tables.header.active}}

\* an execute request: HandleExecuteWorkflow asks for the active snapshot and takes its
\* nodes and edges, or goes on to GetWorkflow
ExecuteSnapshot ==
  /\ reader.pc \in {"idle", "done"}
  /\ \E id \in {GetActiveSnapshot(tables)} :
     \E r \in {[IdleReader EXCEPT !.kind = "execute",
                                  !.seen = [deleted |-> tables.header.present
                                                         /\ tables.header.deleted,
                                            dags |-> ActiveDags],
                                  !.snapshotFound = id # 0]} :
       IF RunsSnapshot(id)
       THEN reader' = [r EXCEPT !.pc = "done",
                                !.got = [NotFound EXCEPT
                                           !.found = TRUE, !.source = "snapshot",
                                           !.nodes = tables.snapshots[id].dag.nodes,
                                           !.edges = tables.snapshots[id].dag.edges]]
       ELSE reader' = [r EXCEPT !.pc = "live"]
  /\ UNCHANGED <<tables, writers, walkerVars, peer>>

\* no active snapshot: s.storage.GetWorkflow begins
ExecuteLive ==
  /\ reader.pc = "live"
  /\ reader' = HeaderQuery([reader EXCEPT !.snap = LiveTables])
  /\ UNCHANGED <<tables, writers, walkerVars, peer>>

\* no storage call in progress
StoreIdle ==
  /\ tables = SeededTables
  /\ writers = [w \in TxIDs |-> NoTx]
  /\ reader = IdleReader

(***************************************************************************)
(* A concurrent request: a second call of executeWorkflow, running between *)
(* the steps of this one, with a caller and deadlines of its own.  Its     *)
(* capabilities answer the hot reading, or fail.                           *)
(***************************************************************************)

\* one map kept by the service and handed to every call
SharedVariables(call) == "this"

\* "Variables: make(map[string]any)": the map a call walks with is a new one, which
\* no other call holds
NewVariables(call) == call

\* the map behind a reference: this call's is bag, the peer's is peer.bag
MapOf(ref) == IF ref = "this" THEN bag ELSE peer.bag

PeerEntry(c) ==
  [call |-> c, pc |-> "start", variables |-> "", nodeMap |-> EmptyMap,
   adjacency |-> EmptyMap, bag |-> EmptyMap, steps |-> <<>>, currentID |-> "",
   ctxErr |-> "", nodeTimedOut |-> FALSE, ret |-> NoReturn]

NoPeer == [PeerEntry(SmallCall(<<>>, <<>>, EmptyMap)) EXCEPT !.pc = "none"]

PeerReading == 30

\* the peer's lines up to the walk
PeerPrepare ==
  /\ peer.pc = "start"
  /\ LET built == Materialize(peer.call.wf.nodes, peer.call.deps, 1, EmptyMap)
         adj == BuildAdjacency(peer.call.wf.edges)
     IN
     IF built.err # NoErr
     THEN /\ peer' = [peer EXCEPT !.ret = HardError(built.err), !.pc = "done"]
          /\ UNCHANGED bag
     ELSE \E g \in validateGraph(peer.call.wf.nodes, adj) :
            IF g.err # NoErr
            THEN /\ peer' = [peer EXCEPT !.nodeMap = built.nodeMap, !.adjacency = adj,
                                         !.ret = HardError(g.err), !.pc = "done"]
                 /\ UNCHANGED bag
            ELSE LET ref == NewVariables("peer")
                     seeded == MergeInto(MapOf(ref), peer.call.inputs)
                 IN
                 /\ peer' = [peer EXCEPT !.nodeMap = built.nodeMap, !.adjacency = adj,
                                         !.variables = ref,
                                         !.bag = IF ref = "peer" THEN seeded ELSE @,
                                         !.currentID = g.startID, !.pc = "loop"]
                 /\ bag' = IF ref = "this" THEN seeded ELSE bag
  /\ UNCHANGED <<walkerLocals, storeVars>>

\* the error of the peer's per-node context, and what its client calls may return
PeerCtxErr == IF peer.nodeTimedOut THEN "context deadline exceeded" ELSE peer.ctxErr

PeerReplies ==
  {Reply(NoErr, PeerReading)} \cup
  (IF PeerCtxErr # "" THEN {Reply(<<PeerCtxErr>>, 0)}
   ELSE {Reply(<<"upstream failure">>, 0)})

\* the head of one iteration of the peer's walk
PeerIterate ==
  /\ peer.pc = "loop"
  /\ LET id == peer.currentID IN
     CASE id = "" ->
            peer' = [peer EXCEPT !.ret = CompletedResponse, !.pc = "done"]
       [] peer.ctxErr # "" ->
            peer' = [peer EXCEPT !.ret = CancelledResponse(id, peer.ctxErr), !.pc = "done"]
       [] Len(peer.steps) >= maxExecutionSteps ->
            peer' = [peer EXCEPT !.ret = LimitResponse(id), !.pc = "done"]
       [] id \notin DOMAIN peer.nodeMap ->
            peer' = [peer EXCEPT !.ret = NotFoundResponse(id), !.pc = "done"]
       [] OTHER ->
            peer' = [peer EXCEPT !.pc = "exec", !.nodeTimedOut = FALSE]
  /\ UNCHANGED <<walkerVars, storeVars>>

\* the peer's node.Execute returns: the rest of its iteration
PeerNodeReturns ==
  /\ peer.pc = "exec"
  /\ \E node \in {peer.nodeMap[peer.currentID]} :
     \E held \in {MapOf(peer.variables)} :
     \E reply \in UNION {Ranged(node, held, answer) :
                           answer \in IF CallsClient(node, held) THEN PeerReplies
                                      ELSE {Reply(NoErr, 0)}} :
     \E result \in {Execute(node, held, reply)} :
       IF result.err # NoErr
       THEN /\ peer' = [peer EXCEPT !.steps = WithFailedStep(@, node, result.err),
                                    !.ret = FailedResponse(node.id, result.err),
                                    !.pc = "done", !.nodeTimedOut = FALSE]
            /\ UNCHANGED bag
       ELSE \E merged \in {MergeInto(held, result.output)} :
            /\ peer' = [peer EXCEPT
                          !.bag = IF peer.variables = "peer" THEN merged ELSE @,
                          !.steps = WithStep(@, node, result),
                          !.currentID = nextNode(EdgesOf(peer.adjacency, peer.currentID),
                                                 result.branch),
                          !.pc = "loop", !.nodeTimedOut = FALSE]
            /\ bag' = IF peer.variables = "this" THEN merged ELSE bag
  /\ UNCHANGED <<walkerLocals, storeVars>>

\* the peer's caller cancels its request
PeerCallerCancels ==
  /\ peer.pc \in {"start", "loop", "exec"}
  /\ peer.ctxErr = ""
  /\ peer' = [peer EXCEPT !.ctxErr = "context canceled"]
  /\ UNCHANGED <<walkerVars, storeVars>>

\* the peer's workflowTimeout fires
PeerWorkflowDeadline ==
  /\ peer.pc \in {"start", "loop", "exec"}
  /\ peer.ctxErr = ""
  /\ peer' = [peer EXCEPT !.ctxErr = "context deadline exceeded"]
  /\ UNCHANGED <<walkerVars, storeVars>>

\* the peer's nodeTimeout fires while its node is in its client call
PeerNodeDeadline ==
  /\ peer.pc = "exec"
  /\ ~peer.nodeTimedOut
  /\ peer.ctxErr = ""
  /\ CallsClient(peer.nodeMap[peer.currentID], MapOf(peer.variables))
  /\ peer' = [peer EXCEPT !.nodeTimedOut = TRUE]
  /\ UNCHANGED <<walkerVars, storeVars>>

\* the two calls of a pair: this one walks the linear or the looping seed, the peer
\* the same workflow or another one
PairCalls == {SeedCall(es, AliceInputs, AllDeps, CoolsAfter(1)) : es \in {LinearEdges, LoopEdges}}

PeerCalls ==
  {SeedCall(LinearEdges, AliceInputs, AllDeps, NeverCools),
   SeedCall(ForkEdges, [AliceInputs EXCEPT !.name = Str("Bob")], AllDeps, NeverCools)}

\* the call has not run a line yet
WalkerStarts ==
  /\ pc = "start"
  /\ ctxErr = ""
  /\ nodeTimedOut = FALSE
  /\ nodeMap = EmptyMap
  /\ adjacency = EmptyMap
  /\ bag = EmptyMap
  /\ steps = <<>>
  /\ currentID = ""
  /\ ret = NoReturn
  /\ executed = <<>>
  /\ clientCalls = 0
  /\ lastErr = NoErr
  /\ lastBranch = ""
  /\ cancelledAt = "never"

Init ==
  /\ \/ \E ns \in SentinelNodeLists, es \in EdgeLists : CallIs(SmallCall(ns, es, EmptyMap))
     \/ \E ns \in ReadingNodeLists, es \in EdgeLists, inp \in SmallInputs :
          CallIs(SmallCall(ns, es, inp))
     \/ \E es \in {LinearEdges, LoopEdges, ForkEdges}, inp \in SeedInputs, d \in {AllDeps, NoEmailDeps},
           p \in Plans : CallIs(SeedCall(es, inp, d, p))
     \/ \E inp \in NamedInputs : CallIs(NamedCall(inp))
  /\ WalkerStarts
  /\ peer = NoPeer
  /\ StoreIdle

Next ==
  \/ Prepare
  \/ Iterate
  \/ NodeReturns
  \/ CallerCancels
  \/ WorkflowDeadline
  \/ NodeDeadline

Spec == Init /\ [][Next]_vars

\* two requests executing at the same time
PairInit ==
  /\ \E c \in PairCalls : CallIs(c)
  /\ WalkerStarts
  /\ \E c \in PeerCalls : peer = PeerEntry(c)
  /\ StoreIdle

PairNext ==
  \/ Next
  \/ PeerPrepare
  \/ PeerIterate
  \/ PeerNodeReturns
  \/ PeerCallerCancels
  \/ PeerWorkflowDeadline
  \/ PeerNodeDeadline

PairSpec == PairInit /\ [][PairNext]_vars

\* storage holds the seeded workflow, or nothing under the id
StoreInit ==
  /\ CallIs(SmallCall(<<>>, <<>>, EmptyMap))
  /\ WalkerStarts
  /\ peer = NoPeer
  /\ tables \in {SeededTables, EmptyTables}
  /\ writers = [w \in TxIDs |-> NoTx]
  /\ reader = IdleReader

\* the storage calls of concurrent requests on one workflow id
StoreNext ==
  \/ \E w \in TxIDs, v \in Saves \cup {FormSave, UnknownTypeSave} : UpsertHeader(w, v)
  \/ \E w \in TxIDs : UpsertDeleteNodes(w)
  \/ \E w \in TxIDs : UpsertInsertNodes(w)
  \/ \E w \in TxIDs : UpsertDeleteEdges(w)
  \/ \E w \in TxIDs : UpsertInsertEdges(w)
  \/ \E w \in TxIDs : DeleteEdges(w)
  \/ \E w \in TxIDs : DeleteNodes(w)
  \/ \E w \in TxIDs : SoftDeleteHeader(w)
  \/ \E w \in TxIDs : Commit(w)
  \/ \E w \in TxIDs : Rollback(w)
  \/ ReadHeader
  \/ ReadNodes
  \/ ReadEdges
  \/ ReadFails

StoreSpec == StoreInit /\ [][StoreNext]_vars

\* the client that edits the workflow, in the requests on a workflow that is published,
\* and the two values it saves in turn
Editor == "w1"
Drafts == {1, 2}

\* the storage calls on one new workflow id that one client saves and deletes while it
\* is published, by that client or by another, and executed
PublishNext ==
  \/ \E v \in Drafts : UpsertHeader(Editor, v)
  \/ UpsertDeleteNodes(Editor)
  \/ UpsertInsertNodes(Editor)
  \/ UpsertDeleteEdges(Editor)
  \/ UpsertInsertEdges(Editor)
  \/ DeleteEdges(Editor)
  \/ DeleteNodes(Editor)
  \/ SoftDeleteHeader(Editor)
  \/ \E w \in TxIDs : PublishRead(w)
  \/ \E w \in TxIDs : PublishInsert(w)
  \/ \E w \in TxIDs : PublishActivate(w)
  \/ \E w \in TxIDs : Commit(w)
  \/ ExecuteSnapshot
  \/ ExecuteLive
  \/ ReadNodes
  \/ ReadEdges
  \/ ReadFails

PublishInit ==
  /\ CallIs(SmallCall(<<>>, <<>>, EmptyMap))
  /\ WalkerStarts
  /\ peer = NoPeer
  /\ tables = EmptyTables
  /\ writers = [w \in TxIDs |-> NoTx]
  /\ reader = IdleReader

PublishSpec == PublishInit /\ [][PublishNext]_vars


\* the reads and the publish calls on the seeded workflow while the library entry of
\* its form is soft-deleted
LibraryNext ==
  \/ RetireLibraryEntry
  \/ \E w \in TxIDs : PublishRead(w)
  \/ \E w \in TxIDs : PublishInsert(w)
  \/ \E w \in TxIDs : PublishActivate(w)
  \/ \E w \in TxIDs : Commit(w)
  \/ ReadHeader
  \/ ReadNodes
  \/ ReadEdges
  \/ ReadFails

LibraryInit ==
  /\ CallIs(SmallCall(<<>>, <<>>, EmptyMap))
  /\ WalkerStarts
  /\ peer = NoPeer
  /\ StoreIdle

LibrarySpec == LibraryInit /\ [][LibraryNext]_vars

\* a publish call, query by query, while one client saves the seeded workflow anew or
\* deletes it
CaptureNext ==
  \/ \E v \in Saves : UpsertHeader(Editor, v)
  \/ UpsertDeleteNodes(Editor)
  \/ UpsertInsertNodes(Editor)
  \/ UpsertDeleteEdges(Editor)
  \/ UpsertInsertEdges(Editor)
  \/ DeleteEdges(Editor)
  \/ DeleteNodes(Editor)
  \/ SoftDeleteHeader(Editor)
  \/ \E w \in TxIDs : PublishBegin(w)
  \/ \E w \in TxIDs : PublishHydrateNodes(w)
  \/ \E w \in TxIDs : PublishHydrateEdges(w)
  \/ \E w \in TxIDs : PublishNextVersion(w)
  \/ \E w \in TxIDs : PublishInsert(w)
  \/ \E w \in TxIDs : PublishActivate(w)
  \/ \E w \in TxIDs : Commit(w)

CaptureSpec == LibraryInit /\ [][CaptureNext]_vars

\* two clients saving one workflow id at the same time
SaveNext ==
  \/ \E w \in TxIDs, v \in Saves \cup {FormSave} : UpsertBegin(w, v)
  \/ \E w \in TxIDs : UpsertHeaderRuns(w)
  \/ \E w \in TxIDs : UpsertDeleteNodes(w)
  \/ \E w \in TxIDs : UpsertInsertNodes(w)
  \/ \E w \in TxIDs : UpsertDeleteEdges(w)
  \/ \E w \in TxIDs : UpsertInsertEdges(w)
  \/ \E w \in TxIDs : Commit(w)
  \/ \E w \in TxIDs : Rollback(w)

SaveSpec == StoreInit /\ [][SaveNext]_vars

FairSpec == Spec /\ WF_vars(Prepare) /\ WF_vars(Iterate) /\ WF_vars(NodeReturns)

(***************************************************************************)
(* Properties of the walker                                                *)
(***************************************************************************)

Returned == pc = "done"
Responded == pc = "done" /\ ret.kind = "response"
StepIDs == [i \in DOMAIN steps |-> steps[i].NodeID]
AllCompleted == \A i \in DOMAIN steps : steps[i].Status = "completed"
LastExecuted == executed[Len(executed)]
LimitMessage == <<"workflow exceeded maximum execution steps">>

\* the defects of a workflow, read off the arguments of the call
IDs == {wf.nodes[i].id : i \in DOMAIN wf.nodes}
StartNodes == {i \in DOMAIN wf.nodes : wf.nodes[i].type = "start"}
TheStart == wf.nodes[CHOOSE i \in StartNodes : \A j \in StartNodes : i <= j].id
NodeDefect ==
  \E i \in DOMAIN wf.nodes :
    LET made == New(wf.nodes[i], deps) IN made.err # NoErr \/ Validate(made.node) # NoErr
DuplicateID == \E i, j \in DOMAIN wf.nodes : i # j /\ wf.nodes[i].id = wf.nodes[j].id
DanglingEdge ==
  \E i \in DOMAIN wf.edges : wf.edges[i].source \notin IDs \/ wf.edges[i].target \notin IDs
EdgeIntoStart ==
  StartNodes # {} /\ \E i \in DOMAIN wf.edges : wf.edges[i].target = TheStart
Defective == NodeDefect \/ DuplicateID \/ DanglingEdge \/ StartNodes = {} \/ EdgeIntoStart

\* C1: every response the walker returns holds at most maxExecutionSteps (100)
\* steps.
C1_StepsBounded == Responded => Len(steps) <= maxExecutionSteps

C1_FullResponse == Responded /\ Len(steps) = maxExecutionSteps /\ Len(wf.nodes) = 2

\* C2: given that every Execute call returns, every call of the walker returns, and
\* does so after at most maxExecutionSteps node executions, for every graph and every
\* behaviour of the capabilities: a loop whose exit branch is never taken is stopped
\* by the step counter.
C2_Terminates == [](Len(executed) <= maxExecutionSteps) /\ <>(pc = "done")

C2_LoopStopped ==
  /\ Responded
  /\ wf.edges = LoopEdges
  /\ ~plan.cools
  /\ Len(executed) = maxExecutionSteps
  /\ ret.error = LimitMessage

\* a response of exactly 100 steps whose 100th node completed and routed to a
\* further node
LimitCase ==
  /\ Responded
  /\ Len(steps) = maxExecutionSteps
  /\ lastErr = NoErr
  /\ currentID # ""

\* C3 as stated: a response of exactly 100 steps whose 100th executed node routed to
\* a further node has status failed and failed_node set.
C3_AsStated == LimitCase => ret.status = "failed" /\ ret.failedNode # ""

\* C3: a response of exactly 100 steps whose 100th executed node routed to a further
\* node names that further node as failed_node; its status is failed, with the
\* step-limit error, unless the workflow context is found done at the top of that
\* iteration, in which case it is cancelled.
C3_LimitOrCancelled ==
  LimitCase =>
    /\ ret.failedNode = currentID
    /\ IF ctxErr # "" THEN ret.status = "cancelled"
       ELSE ret.status = "failed" /\ ret.error = LimitMessage

C3_CancelledAtLimit == LimitCase /\ ret.status = "cancelled"

\* C4 as stated: when every executed node returned completed, the response status is
\* completed and failed_node is unset.
C4_AsStated == (Responded /\ AllCompleted) => ret.status = "completed" /\ ret.failedNode = ""

\* C4: when every executed node returned completed, the response is completed with
\* failed_node unset if the walk ended with no node left to run, which is what
\* happens when the context was never cancelled and fewer than 100 steps ran; it is
\* failed with failed_node set only by the 100-step limit, and cancelled only with
\* the workflow context done.
C4_CompletedUnlessStopped ==
  (Responded /\ AllCompleted) =>
    /\ (cancelledAt = "never" /\ Len(steps) < maxExecutionSteps) =>
         ret.status = "completed" /\ ret.failedNode = "" /\ ret.error = NoErr
    /\ ret.status = "completed" => ret.failedNode = "" /\ currentID = ""
    /\ ret.status = "failed" =>
         /\ Len(steps) = maxExecutionSteps
         /\ ret.failedNode = currentID
         /\ currentID # ""
    /\ ret.status = "cancelled" => ctxErr # "" /\ ret.failedNode = currentID

C4_WalkedToTheEnd ==
  /\ Responded
  /\ AllCompleted
  /\ ret.status = "completed"
  /\ StepIDs = <<"start", "form", "weather-api", "condition", "email", "end">>

\* C5: when a node's Execute returns an error the walk stops at once: the call has
\* returned a response with status failed and failed_node that node, the last step is
\* that node's with status error and the error text, the steps before it are the
\* nodes executed before it, in order and all completed, and no node executed after.
C5_StopsAtFailedNode ==
  lastErr # NoErr =>
    /\ Responded
    /\ ret.status = "failed"
    /\ Len(executed) >= 1
    /\ ret.failedNode = LastExecuted
    /\ StepIDs = executed
    /\ steps[Len(steps)].Status = "error"
    /\ steps[Len(steps)].Error = lastErr
    /\ \A i \in 1..(Len(steps) - 1) : steps[i].Status = "completed"

C5_FailedMidWalk == Returned /\ lastErr # NoErr /\ Len(steps) >= 3 /\ cancelledAt = "never"

\* node materialisation and graph validation succeed on the arguments of the call
MaterializedOK == Materialize(wf.nodes, deps, 1, EmptyMap).err = NoErr
GraphOK == \E g \in validateGraph(wf.nodes, BuildAdjacency(wf.edges)) : g.err = NoErr

\* C6: once node materialisation and graph validation have succeeded the walker
\* returns no error value: every ending, a failed or a cancelled one included, is a
\* response carrying its status.
C6_ResponseAfterValidation ==
  (Returned /\ MaterializedOK /\ GraphOK) =>
    /\ ret.kind = "response"
    /\ ret.status \in {"completed", "failed", "cancelled"}

C6_FailureIsAResponse ==
  /\ Returned
  /\ MaterializedOK
  /\ GraphOK
  /\ ret.kind = "response"
  /\ ret.status = "failed"
  /\ ret.error = LimitMessage

\* C7: a workflow with an unknown node type, with metadata that does not parse or
\* fails Validate, with a duplicate node id, with an edge whose source or target is
\* no node, with no start node, or with an edge into the start node (the one the walk
\* starts from: the first node of type start) is rejected with an error value: no
\* response is produced and no node's Execute is invoked.
C7_DefectsRejected ==
  Defective =>
    /\ pc \in {"start", "done"}
    /\ executed = <<>>
    /\ steps = <<>>
    /\ ret.kind # "response"
    /\ Returned => ret.kind = "error"

C7_EdgeIntoStartRejected ==
  /\ Returned
  /\ ret.kind = "error"
  /\ EdgeIntoStart
  /\ ~NodeDefect
  /\ ~DuplicateID
  /\ ~DanglingEdge

\* C8: called on a valid workflow with a context that is already cancelled, the
\* walker executes no node and returns a response with status cancelled, failed_node
\* the start node and no steps.
C8_CancelledBeforeStart ==
  (cancelledAt = "start" /\ ~Defective) =>
    /\ executed = <<>>
    /\ steps = <<>>
    /\ Returned =>
         /\ ret.kind = "response"
         /\ ret.status = "cancelled"
         /\ ret.failedNode = TheStart

C8_CancelledCall ==
  /\ Returned
  /\ cancelledAt = "start"
  /\ ctxErr = "context canceled"
  /\ ~Defective
  /\ ret.status = "cancelled"

\* C9 as stated: when the caller cancels or the 60 s deadline fires while the walk is
\* in progress (a node is executing, or about to), the response is cancelled, never
\* failed or completed.
C9_AsStated ==
  (Responded /\ (cancelledAt = "exec" \/ (cancelledAt = "loop" /\ currentID # ""))) =>
    ret.status = "cancelled"

\* C9: when the caller cancels or the 60 s deadline fires during a call, the response
\* is cancelled exactly when the walker finds the context done at the top of an
\* iteration with a node left to run: failed_node is that node and steps are the
\* nodes completed before.  A cancellation that arrives while a node is executing and
\* makes its Execute return an error gives failed with failed_node that node, and one
\* after which no node is left to run gives completed.
C9_CancelledAtIterationTop ==
  (Responded /\ cancelledAt # "never") =>
    CASE lastErr # NoErr ->
           /\ cancelledAt = "exec"
           /\ ret.status = "failed"
           /\ ret.failedNode = LastExecuted
      [] currentID = "" ->
           /\ cancelledAt \in {"exec", "loop"}
           /\ ret.status = "completed"
      [] OTHER ->
           /\ ret.status = "cancelled"
           /\ ret.failedNode = currentID
           /\ AllCompleted
           /\ StepIDs = executed

C9_CancelledMidWalk ==
  /\ Responded
  /\ cancelledAt = "exec"
  /\ ret.status = "cancelled"
  /\ Len(steps) >= 2

\* C10: when a node's own timeout fires while the workflow context is still live and
\* the node's Execute returns an error because of it, the response is failed with
\* failed_node that node, never cancelled.
C10_NodeTimeoutFails ==
  (Returned /\ ctxErr = "" /\ lastErr # NoErr
     /\ lastErr[Len(lastErr)] = "context deadline exceeded") =>
    /\ ret.kind = "response"
    /\ ret.status = "failed"
    /\ ret.failedNode = LastExecuted
    /\ steps[Len(steps)].NodeID = LastExecuted

C10_NodeTimedOut ==
  /\ Returned
  /\ ctxErr = ""
  /\ lastErr = <<"weather lookup failed: ", "context deadline exceeded">>
  /\ ret.status = "failed"
  /\ ret.failedNode = "weather-api"

\* C11 as stated: a workflow on which the walker executes at least one node has
\* exactly one node of type start, and that node has no incoming edge.
C11_AsStated ==
  Len(executed) >= 1 =>
    /\ Cardinality(StartNodes) = 1
    /\ \A i \in DOMAIN wf.edges : wf.edges[i].target # TheStart

\* C11: a workflow on which the walker executes at least one node has at least one
\* node of type start; the walk begins at the first of them in node order, and that
\* one has no incoming edge.  Further nodes of type start are accepted and may have
\* incoming edges.
C11_FirstStartProtected ==
  Len(executed) >= 1 =>
    /\ StartNodes # {}
    /\ executed[1] = TheStart
    /\ \A i \in DOMAIN wf.edges : wf.edges[i].target # TheStart

C11_WalkedIntoSecondStart ==
  /\ Len(executed) >= 2
  /\ Cardinality(StartNodes) = 2
  /\ executed[2] = wf.nodes[2].id
  /\ wf.nodes[2].type = "start"

\* the graphs C12 speaks of
WellFormed ==
  /\ Cardinality(StartNodes) = 1
  /\ ~EdgeIntoStart
  /\ ~DanglingEdge
  /\ ~DuplicateID

\* C12: for every graph with exactly one start node, no edge into it, every edge
\* between node ids and unique ids, cyclic or not, validateGraph returns the start
\* node's id and no error.
C12_WellFormedAccepted ==
  WellFormed =>
    validateGraph(wf.nodes, BuildAdjacency(wf.edges)) = {[startID |-> TheStart, err |-> NoErr]}

C12_CycleAccepted ==
  /\ WellFormed
  /\ \E i \in DOMAIN wf.edges : wf.edges[i].source = wf.edges[i].target
  /\ pc = "loop"
  /\ Len(executed) >= 3
  /\ executed[2] = executed[3]

\* C13 as stated: the error validateGraph returns for a defective graph is a function
\* of the node list and the edge list: the error a call returned is the only one
\* validateGraph can return for its graph, also with several defects at once.
C13_AsStated ==
  (Returned /\ ret.kind = "error" /\ MaterializedOK) =>
    validateGraph(wf.nodes, BuildAdjacency(wf.edges)) = {[startID |-> "", err |-> ret.error]}

\* the while-loop workflow, and the condition's evaluations in a walk of it
IsLoopWorkflow == wf.nodes = SeedNodes /\ wf.edges = LoopEdges
CondSteps == SelectSeq(steps, LAMBDA st : st.NodeID = "condition" /\ st.Status = "completed")
Held(st) == st.Output["conditionMet"] = Bool(TRUE)
EmailRuns == Cardinality({i \in DOMAIN executed : executed[i] = "email"})

\* the condition held on its first k evaluations and failed on the next, and the
\* walk that ends with the end node, 3k + 5 steps, is within the step limit
HeldThenFailed(k) ==
  /\ Len(CondSteps) = k + 1
  /\ \A i \in 1..k : Held(CondSteps[i])
  /\ ~Held(CondSteps[k + 1])
  /\ 3 * k + 5 <= maxExecutionSteps

\* C14 as stated: in the while-loop workflow, when the condition holds on its first k
\* evaluations and fails on the next, the email node executes exactly k times and the
\* response is completed with end as the final step.
C14_AsStated ==
  \A k \in 0..maxExecutionSteps :
    (Responded /\ IsLoopWorkflow /\ HeldThenFailed(k)) =>
      /\ EmailRuns = k
      /\ ret.status = "completed"
      /\ steps[Len(steps)].NodeID = "end"

\* C14: in the while-loop workflow, when the condition holds on its first k
\* evaluations and fails on the next, the email node executes exactly k times and the
\* walk goes on to the end node: the response is completed with end as the final
\* step, unless the walker finds the workflow context done before it runs end, in
\* which case the response is cancelled with failed_node end.
C14_LoopRunsKTimes ==
  \A k \in 0..maxExecutionSteps :
    (Responded /\ IsLoopWorkflow /\ HeldThenFailed(k)) =>
      /\ EmailRuns = k
      /\ \/ /\ ret.status = "completed"
            /\ steps[Len(steps)].NodeID = "end"
            /\ Len(steps) = 3 * k + 5
         \/ /\ ret.status = "cancelled"
            /\ ctxErr # ""
            /\ ret.failedNode = "end"
            /\ Len(steps) = 3 * k + 4
      /\ cancelledAt = "never" => ret.status = "completed"

C14_TwoEmailsThenEnd ==
  /\ Responded
  /\ IsLoopWorkflow
  /\ HeldThenFailed(2)
  /\ EmailRuns = 2
  /\ ret.status = "completed"
  /\ steps[Len(steps)].NodeID = "end"

\* the latest Execute succeeded and its node's successor has been chosen
JustRouted == pc \in {"loop", "done"} /\ Len(executed) >= 1 /\ lastErr = NoErr

\* the outgoing edges of the node executed last, in edge order, and the handle the
\* branch it returned asks for
Out == IF Len(executed) >= 1 /\ LastExecuted \in DOMAIN adjacency
       THEN adjacency[LastExecuted] ELSE <<>>
Wanted == IF lastBranch = "" THEN <<>> ELSE <<lastBranch>>
Matching == {i \in DOMAIN Out : Out[i].SourceHandle = Wanted}
FirstMatching == CHOOSE i \in Matching : \A j \in Matching : i <= j

\* C15: after a node succeeds the next node is chosen by edge order: with an empty
\* branch it is the target of the first outgoing edge whose source handle is unset,
\* with a non-empty branch the target of the first outgoing edge whose source handle
\* equals the branch.
C15_FirstMatchingEdge ==
  (JustRouted /\ Matching # {}) => currentID = Out[FirstMatching].TargetID

C15_FirstOfTwoTaken ==
  /\ JustRouted
  /\ wf.edges = ForkEdges
  /\ LastExecuted = "condition"
  /\ lastBranch = "false"
  /\ Cardinality(Matching) = 2
  /\ currentID = "end"

\* C16: when a node returns a non-empty branch and none of its outgoing edges has a
\* source handle equal to it, the walk ends cleanly: no further node executes and the
\* response is completed.
C16_NoMatchEndsWalk ==
  (JustRouted /\ lastBranch # "" /\ Matching = {}) =>
    /\ currentID = ""
    /\ StepIDs = executed
    /\ Returned =>
         /\ ret.kind = "response"
         /\ ret.status = "completed"
         /\ ret.failedNode = ""
         /\ steps[Len(steps)].NodeID = LastExecuted

C16_UnmatchedBranch ==
  /\ Returned
  /\ JustRouted
  /\ lastBranch = "false"
  /\ Matching = {}
  /\ Len(Out) >= 1
  /\ ret.status = "completed"

\* the latest of the first i steps that wrote key k (0 when none did), and the bag
\* that the inputs and the steps so far
\* account for: every key holds what the latest step that wrote it put there, and a
\* key no step wrote holds the caller's input
RECURSIVE LatestWriter(_, _)
LatestWriter(k, i) ==
  IF i = 0 THEN 0
  ELSE IF k \in DOMAIN steps[i].Output THEN i ELSE LatestWriter(k, i - 1)

OverlaidBag ==
  [k \in (DOMAIN inputs) \cup UNION {DOMAIN steps[i].Output : i \in DOMAIN steps} |->
     IF LatestWriter(k, Len(steps)) = 0 THEN inputs[k]
     ELSE steps[LatestWriter(k, Len(steps))].Output[k]]

\* C17: the variable bag a node is executed with is the caller's inputs overlaid
\* with the outputs of all nodes executed before it, every key holding the value
\* written most recently, also across loop iterations.
C17_LastWriteWins == (pc \in {"loop", "exec"} \/ Responded) => bag = OverlaidBag

C17_OverwrittenInLoop ==
  /\ pc = "exec"
  /\ IsLoopWorkflow
  /\ currentID = "condition"
  /\ bag["temperature"] = Num(10)
  /\ \E i \in DOMAIN steps : steps[i].NodeID = "weather-api"
                             /\ steps[i].Output["temperature"] = Num(30)
  /\ inputs["operator"] = Str("greater_than")
  /\ bag["operator"] = Op("greater_than")

\* the results the email node's Execute can return in the current state for one and
\* the same answer of its client
EmailResults ==
  LET node == nodeMap[currentID] IN
  {Execute(node, bag, reply) : reply \in Ranged(node, bag, Reply(NoErr, Reading))}

\* C18 as stated: with the workflow, the inputs and the capabilities' answers fixed,
\* the steps are the same in every execution: where the walk executes the email node,
\* the step it records is determined.
C18_AsStated ==
  (pc = "exec" /\ nodeMap[currentID].type = "email" /\ CallsClient(nodeMap[currentID], bag)) =>
     Cardinality(EmailResults) = 1

\* C19: concurrent executions share no mutable state: every step of a pair of
\* executions is a step this execution takes alone, the peer standing still, or one
\* that leaves this execution's locals and variable bag as they were.
C19_NoSharedState == [][Next \/ UNCHANGED walkerVars]_vars

\* both executions are in the middle of their walks
C19_BothMidWalk ==
  /\ pc \in {"loop", "exec"} /\ Len(steps) > 0
  /\ peer.pc = "loop" /\ Len(peer.steps) > 0

\* C20: GetWorkflow never returns a torn view: the header, the nodes and the edges of
\* a workflow it returns are those of one committed state, the one that was committed
\* when its first query ran, whatever commits while it reads.
C20_NoTornView ==
  (reader.pc = "done" /\ reader.got.found /\ reader.got.source = "live") =>
     /\ reader.snap.header.present /\ ~reader.snap.header.deleted
     /\ reader.got.name = reader.snap.header.name
     /\ reader.got.nodes \in hydrateNodes(reader.snap)
     /\ reader.got.edges \in hydrateEdges(reader.snap)

\* a write committed between the queries of a read that returned a workflow
C20_CommitDuringRead ==
  /\ reader.pc = "done" /\ reader.got.found /\ reader.got.source = "live"
  /\ reader.raced
  /\ LiveTables # reader.snap

(***************************************************************************)
(* Properties of storage: soft delete, round trips, versions               *)
(***************************************************************************)

\* C21: a soft-deleted workflow is invisible to every read path: a GetWorkflow whose
\* first query meets the workflow soft-deleted returns not found, GetActiveSnapshot
\* returns no snapshot for it, and a PublishWorkflow that begins then returns not found
\* and writes nothing, until an upsert has cleared deleted_at.
C21_DeletedInvisible ==
  /\ [](/\ (reader.pc = "done" /\ reader.liveQueries > 0 /\ reader.snap.header.deleted)
             => ~reader.got.found
        /\ (reader.kind = "execute" /\ reader.seen.deleted) => ~reader.snapshotFound)
  /\ [][\A w \in TxIDs :
          (writers[w].op = "none" /\ tables.header.deleted)
            => /\ writers'[w].op # "publish"
               /\ (writers'[w] # writers[w] /\ writers'[w].res.call = "publish")
                    => writers'[w].res.outcome = "notfound"]_vars

\* an execute request and a publish both met the workflow, which has an active
\* snapshot, soft-deleted: no snapshot, no workflow, not found
C21_DeletedWasAsked ==
  /\ reader.pc = "done" /\ reader.kind = "execute"
  /\ reader.seen.deleted /\ ~reader.snapshotFound
  /\ reader.liveQueries > 0 /\ reader.snap.header.deleted /\ reader.snap.header.active # 0
  /\ ~reader.got.found
  /\ tables.header.deleted
  /\ \E w \in TxIDs : writers[w].res = [call |-> "publish", outcome |-> "notfound"]

\* C22: after a successful upsert of a workflow value and no write since, a read of the
\* id returns the nodes and the edges of that value (as sets: the order of the edges
\* is left open).  The header that the read met names the value saved last.
C22_AsStated ==
  (reader.pc = "done" /\ reader.kind = "get" /\ reader.got.found) =>
     /\ Range(reader.got.nodes) = Range(WorkflowValue(reader.snap.header.name).nodes)
     /\ Range(reader.got.edges) = Range(WorkflowValue(reader.snap.header.name).edges)

\* C23: an upsert of an id whose workflow is soft-deleted un-deletes it: deleted_at is
\* cleared, and a read that follows, with no write since, returns the workflow with
\* the nodes and the edges just upserted.
C23_AsStated ==
  (reader.pc = "done" /\ reader.kind = "get" /\ reader.snap.revived) =>
     /\ ~reader.snap.header.deleted
     /\ reader.got.failed \/ reader.got.found
     /\ reader.got.found =>
          /\ Range(reader.got.nodes) = Range(WorkflowValue(reader.snap.header.name).nodes)
          /\ Range(reader.got.edges) = Range(WorkflowValue(reader.snap.header.name).edges)

\* C24: an upsert that fails part-way (a node type that the library does not have, a
\* failing statement) is rolled back as a whole: when the call returns its error the
\* stored header with its deleted flag, the node instances and the edges of the
\* workflow are those that were stored when the call began.
C24_FailedUpsertRollsBack ==
  [][\A w \in TxIDs :
       (writers[w].op = "upsert" /\ writers'[w].op = "none"
          /\ writers'[w].res.outcome = "error")
         => /\ tables'.header = writers[w].before.header
            /\ tables'.nodes = writers[w].before.nodes
            /\ tables'.edges = writers[w].before.edges]_vars

\* an upsert of the value with the unknown node type, or one with a failing statement,
\* has returned its error over the seeded workflow, which is stored as it was
C24_UpsertFailed ==
  /\ \E w \in TxIDs : writers[w].res = [call |-> "upsert", outcome |-> "error"]
  /\ tables = SeededTables

\* C25: whatever the sequence and the interleaving of the publish calls, the version
\* numbers of the snapshots of the workflow are exactly 1..n, without a duplicate and
\* without a gap, and the snapshot that a successful publish adds has the version one
\* greater than the highest there was before it.
C25_VersionsDense ==
  /\ [](\A i \in DOMAIN tables.snapshots : tables.snapshots[i].version = i)
  /\ [][Len(tables'.snapshots) > Len(tables.snapshots)
         => /\ Len(tables'.snapshots) = Len(tables.snapshots) + 1
            /\ \A i \in DOMAIN tables.snapshots : tables'.snapshots[i] = tables.snapshots[i]
            /\ \A s \in Range(tables.snapshots) :
                  tables'.snapshots[Len(tables'.snapshots)].version > s.version
            /\ \E s \in Range(tables.snapshots) \cup {[version |-> 0]} :
                  tables'.snapshots[Len(tables'.snapshots)].version = s.version + 1]_vars

\* version 1 is committed, and two publish calls that both read it as the highest are
\* open with version 2, one of them about to commit
C25_PublishesRaced ==
  /\ Len(tables.snapshots) = 1
  /\ \A w \in TxIDs : writers[w].op = "publish" /\ writers[w].version = 2
  /\ \E w \in TxIDs : writers[w].at = 6

\* C26: in every storage state the active snapshot of the workflow, when it has one, is
\* a snapshot of that workflow, is the one that the last successful publish inserted,
\* which has the highest version, and the status of the workflow is published.
C26_ActiveIsLatest ==
  tables.header.active # 0 =>
     /\ tables.header.present
     /\ tables.header.active \in DOMAIN tables.snapshots
     /\ tables.snapshots[tables.header.active].workflow = TheWorkflow
     /\ tables.header.active = Len(tables.snapshots)
     /\ \A s \in Range(tables.snapshots) :
          s.version <= tables.snapshots[tables.header.active].version
     /\ tables.header.status = "published"

\* two snapshots are published, the workflow was saved again with another value and
\* then deleted, and still points at the second snapshot
C26_EditedAfterPublish ==
  /\ Len(tables.snapshots) = 2
  /\ tables.header.active = 2
  /\ tables.header.deleted
  /\ tables.snapshots[2].dag.nodes # <<>>
  /\ tables.snapshots[2].dag.nodes[1].pos # tables.header.name

\* C27: an execute request for a workflow that has an active snapshot runs the graph
\* stored in that snapshot and reads none of the live tables; only a request that finds
\* no active snapshot goes on to the live workflow of GetWorkflow.
C27_RunsTheSnapshot ==
  (reader.pc = "done" /\ reader.kind = "execute") =>
     IF reader.seen.dags # {}
     THEN /\ reader.got.found /\ reader.got.source = "snapshot"
          /\ [nodes |-> reader.got.nodes, edges |-> reader.got.edges] \in reader.seen.dags
          /\ reader.liveQueries = 0
     ELSE /\ reader.got.source # "snapshot"
          /\ reader.liveQueries > 0

\* a request ran the graph of the active snapshot while the live tables hold a value
\* saved after the publish
C27_SnapshotNotLive ==
  /\ reader.pc = "done" /\ reader.kind = "execute"
  /\ reader.got.found /\ reader.got.source = "snapshot" /\ reader.liveQueries = 0
  /\ tables.header.active # 0 /\ ~tables.header.deleted
  /\ tables.snapshots[tables.header.active].dag.nodes = reader.got.nodes
  /\ reader.got.nodes[1].pos # tables.header.name
  /\ \A row \in tables.nodes : row.pos = tables.header.name

\* C28: two consecutive reads of the workflow with no write between them return equal
\* results: the same nodes and the same edges, in the same order.
C28_AsStated ==
  (reader.pc = "done" /\ reader.kind = "get" /\ reader.got.found /\ reader.prev.found) =>
     /\ reader.got.nodes = reader.prev.nodes
     /\ reader.got.edges = reader.prev.edges

\* C29: in every hydrated workflow that a read returns or that a publish captures, the
\* source and the target of each edge are ids of nodes of that same hydrated workflow,
\* also after a library entry that the workflow uses has been soft-deleted.
C29_AsStated ==
  /\ (reader.pc = "done" /\ reader.got.found) =>
        \A e \in Range(reader.got.edges) :
          {e.source, e.target} \subseteq {n.id : n \in Range(reader.got.nodes)}
  /\ \A s \in Range(tables.snapshots) :
        \A e \in Range(s.dag.edges) :
          {e.source, e.target} \subseteq {n.id : n \in Range(s.dag.nodes)}

(***************************************************************************)
(* Properties of the condition node                                        *)
(***************************************************************************)

\* C30: a condition node returns the branch "true" exactly when the compared value
\* satisfies the operator against the threshold, greater_than_or_equal and
\* less_than_or_equal being true when the value equals the threshold, and the branch
\* "false" otherwise.  The operator and the threshold are those that the variable bag
\* holds when the node runs.
C30_AsStated ==
  [][(/\ pc = "exec" /\ pc' = "loop"
      /\ nodeMap[currentID].type = "condition"
      /\ "operator" \in DOMAIN bag /\ bag["operator"].t \in {"str", "op"}
      /\ Raw(bag["operator"]) \in Operators
      /\ IsNumber(bag, "threshold"))
       => (lastBranch' = "true"
             <=> evaluate(Raw(bag'["actualValue"]), Raw(bag["operator"]),
                          Raw(bag["threshold"])))]_vars

(***************************************************************************)
(* Properties of the storage under concurrent writers                      *)
(***************************************************************************)

\* C31: in every committed state, also after a delete and an upsert of the same id ran
\* concurrently, a workflow whose header is soft-deleted has no node-instance rows and
\* no edge rows.
C31_AsStated ==
  (tables.header.present /\ tables.header.deleted) =>
     tables.nodes = {} /\ tables.edges = {}

\* C32: the nodes and the edges that a publish call has read, and the snapshot it
\* commits, are those of the live workflow in one single committed state, the one its
\* transaction began in; an upsert that commits between its queries is not mixed in.
C32_OneCommittedState ==
  /\ [](\A w \in TxIDs :
          writers[w].op = "publish" =>
            /\ writers[w].at >= 2 => writers[w].dag.nodes \in hydrateNodes(writers[w].snap)
            /\ writers[w].at >= 3 => writers[w].dag.edges \in hydrateEdges(writers[w].snap))
  /\ [][\A w \in TxIDs :
          /\ (writers[w].op = "none" /\ writers'[w].op = "publish") =>
                writers'[w].snap = tables
          /\ (writers[w].op = "publish" /\ writers'[w].op = "publish") =>
                writers'[w].snap = writers[w].snap
          /\ (writers[w].op = "publish" /\ writers[w].at = 6 /\ writers'[w].op = "none") =>
                /\ Len(tables'.snapshots) = Len(tables.snapshots) + 1
                /\ tables'.snapshots[Len(tables'.snapshots)].dag = writers[w].dag]_vars

\* a publish call has read the header and the nodes, an upsert has committed other
\* nodes and other edges since the publish began, and the edges are still to be read
C32_UpsertCommittedMidPublish ==
  \E w \in TxIDs :
    /\ writers[w].op = "publish" /\ writers[w].at = 2
    /\ Visible(tables.header)
    /\ tables.nodes # writers[w].snap.nodes
    /\ tables.edges # writers[w].snap.edges

\* C33: under concurrent publish and upsert calls, the graph that an execute request
\* runs is the active snapshot, or the live graph of a workflow that had no active
\* snapshot in the committed state that the live graph was read from; it is never a
\* live graph that was saved after the workflow was published.
C33_AsStated ==
  (reader.kind = "execute" /\ reader.pc = "done" /\ reader.got.found) =>
     \/ reader.got.source = "snapshot"
     \/ reader.got.source = "live" /\ reader.snap.header.active = 0
     \/ /\ reader.got.source = "live"
        /\ reader.snap.header.active \in DOMAIN tables.snapshots
        /\ tables.snapshots[reader.snap.header.active].dag =
             [nodes |-> reader.got.nodes, edges |-> reader.got.edges]

\* C34: no step of an upsert call changes the status or the active_snapshot_id of a
\* workflow row: a published workflow stays published with the same active snapshot
\* when an upsert commits, also an upsert that un-deletes it.
C34_UpsertKeepsPublication ==
  [][\A w \in TxIDs :
       (writers[w].op = "upsert" /\ writers'[w] # writers[w] /\ tables.header.present) =>
          /\ tables'.header.present
          /\ tables'.header.status = tables.header.status
          /\ tables'.header.active = tables.header.active]_vars

\* an upsert has un-deleted a published workflow, which is published still
C34_PublishedRevived ==
  /\ tables.revived /\ ~tables.header.deleted
  /\ tables.header.status = "published"
  /\ tables.header.active \in DOMAIN tables.snapshots
  /\ \A w \in TxIDs : writers[w].op = "none"

\* C35: snapshots are immutable: no step of an upsert, a delete or a publish changes or
\* removes a snapshot row that is committed; its workflow id, its version number and its
\* DAG stay as they were inserted.
C35_SnapshotsImmutable ==
  [][\A i \in DOMAIN tables.snapshots :
       /\ i \in DOMAIN tables'.snapshots
       /\ tables'.snapshots[i] = tables.snapshots[i]]_vars

\* the first snapshot is there as published, after an upsert of another graph, a second
\* publish and a delete have committed
C35_OutlivedLaterCalls ==
  /\ Len(tables.snapshots) = 2
  /\ tables.snapshots[1].version = 1
  /\ tables.snapshots[2].dag # tables.snapshots[1].dag
  /\ tables.header.deleted
  /\ \A w \in TxIDs : writers[w].op = "none"

\* C36: the header statement of a delete call on a workflow that is soft-deleted already
\* affects no row: the call returns the not-found signal, as it does for an id that has
\* no row, and writes nothing to the header (deleted_at and modified_at stay).
C36_AsStated ==
  [][\A w \in TxIDs :
       (/\ writers[w].op = "delete" /\ writers[w].at = 3
        /\ tables.header.present /\ tables.header.deleted
        /\ writers'[w].at = 6 \/ writers'[w].res.outcome = "notfound") =>
          /\ writers'[w] = Ended("delete", "notfound")
          /\ ~writers'[w].wroteHeader]_vars

\* C37: of two upsert calls on one workflow id that are open at the same time, the one
\* that has upserted the header keeps the other waiting at its first statement and is
\* never made to wait by it, so that the two cannot fail each other; and every upsert that commits leaves the node instances and the edges of the
\* workflow equal to those of its own value, with no row of the other's value.
C37_LastUpsertWins ==
  /\ [](\A w \in TxIDs :
          (writers[w].op = "upsert" /\ writers[w].at >= 2) =>
            /\ \A o \in TxIDs \ {w} : writers[o].op = "upsert" => writers[o].at = 1
            /\ ~NodesLocked(w, SeenNodes(w)) /\ ~EdgesLocked(w, SeenEdges(w)))
  /\ [][\A w \in TxIDs :
          (writers[w].op = "upsert" /\ writers[w].at = 6 /\ writers'[w] = NoTx) =>
             /\ tables'.nodes \in {InstanceRows(writers[w].save, lookup) :
                                     lookup \in TypeLookups}
             /\ tables'.edges = EdgeRows(writers[w].save)
             /\ tables'.header.name = writers[w].save]_vars

\* an upsert of one value has written all its rows and is to commit, while an upsert of
\* another value of the same workflow waits for the header row
C37_SecondUpsertWaits ==
  \E w, o \in TxIDs :
    /\ writers[w].op = "upsert" /\ writers[w].at = 6
    /\ writers[o].op = "upsert" /\ writers[o].at = 1
    /\ writers[w].save # writers[o].save
    /\ tables.header.present
    /\ tables.nodes # writers[w].insNodes

(***************************************************************************)
(* Properties of the walk as a path                                        *)
(***************************************************************************)

\* every outgoing edge of the node that ran last carries a source handle
AllHandled == Len(Out) >= 1 /\ \A i \in DOMAIN Out : Out[i].SourceHandle # NilHandle

\* C38: when a node returns an empty branch and every one of its outgoing edges carries
\* a source handle, the walker goes on to the target of the first outgoing edge instead
\* of ending the walk.
C38_FallsBackToFirstEdge ==
  (JustRouted /\ lastBranch = "" /\ AllHandled) =>
     /\ currentID = Out[1].TargetID
     /\ currentID # ""

\* a node that is no condition has run, all its edges carry handles, and the node that
\* the first of them leads to has run after it
C38_FellBack ==
  /\ Returned /\ lastErr = NoErr /\ Len(steps) >= 3
  /\ \E i \in 1..(Len(executed) - 1) :
       /\ executed[i] \in DOMAIN adjacency
       /\ nodeMap[executed[i]].type # "condition"
       /\ \A j \in DOMAIN adjacency[executed[i]] :
            adjacency[executed[i]][j].SourceHandle # NilHandle
       /\ executed[i + 1] = adjacency[executed[i]][1].TargetID

\* C39: once validateGraph has accepted the workflow, the current node id always
\* resolves in the node map: the walker never meets an id that the map lacks, and no
\* execution ends with the failure "node <id> not found in workflow".
C39_CurrentResolves ==
  /\ (pc \in {"loop", "exec"} /\ currentID # "") => currentID \in DOMAIN nodeMap
  /\ Responded => ret # NotFoundResponse(ret.failedNode)

\* the walker has followed an edge and is executing the node that the edge leads to
C39_FollowedAnEdge ==
  /\ pc = "exec"
  /\ Len(executed) >= 2
  /\ currentID \in DOMAIN nodeMap
  /\ \E i \in DOMAIN adjacency[executed[Len(executed) - 1]] :
       adjacency[executed[Len(executed) - 1]][i].TargetID = currentID

\* C40: the steps of every response form a path in the graph of the workflow: the first
\* step is the start node, and the node of each later step is the target of an edge
\* whose source is the node of the step before it.
C40_StepsFormPath ==
  Responded =>
    /\ Len(steps) >= 1 => steps[1].NodeID = TheStart
    /\ \A i \in 2..Len(steps) :
         \E k \in DOMAIN wf.edges :
           /\ wf.edges[k].source = steps[i - 1].NodeID
           /\ wf.edges[k].target = steps[i].NodeID

\* a response whose steps went round a cycle of the graph and took a branch
C40_WalkedACycle ==
  /\ Responded
  /\ Len(steps) >= 4
  /\ steps[1].NodeID = TheStart
  /\ \E i, j \in DOMAIN steps : i < j /\ steps[i].NodeID = steps[j].NodeID
  /\ \E i \in DOMAIN steps : Len(EdgesOf(adjacency, steps[i].NodeID)) >= 2

====
